---------------------------- MODULE Spec2Model ----------------------------
(***************************************************************************)
(* Model of the inter-process resource primitives of iceoryx:              *)
(*   - posix::FileLock / FileLockBuilder   (file_lock.cpp)                 *)
(*   - posix::SharedMemoryObject           (shared_memory_object.cpp)      *)
(* The operating system (directory, inodes, descriptor tables, flock       *)
(* state) is part of the state; every system call of the code is one       *)
(* atomic step, so that the calls of several processes interleave.         *)
(***************************************************************************)
EXTENDS Integers, Sequences, FiniteSets, TLC

(***************************************************************************)
(* Bounds of the model                                                     *)
(***************************************************************************)
NumProcs == 2
NumSlots == 2
NumThreads == 2
MemorySize == 5
\* messages the log holds before the model stops calling
MaxLog == 2
\* storable_function objects alive at one time
NumFuncs == 3

(***************************************************************************)
(* Program constants                                                       *)
(***************************************************************************)
INVALID_FD == -1

Procs == 1 .. NumProcs
\* the FileLock objects a process may have at one time
Slots == 1 .. NumSlots
\* a reference bound to no object (operator=, line 112)
NullRef == 0
\* a descriptor table with room for one descriptor per FileLock object
FDs == 1 .. NumSlots
\* a path that names no file, a descriptor that is not open
NoInode == 0
\* an inode whose flock is held by no open file description
NoOwner == <<0, 0>>

LOCK_FILE_SUFFIX == ".lock"
IOX_PATH_SEPARATOR == "/"
EmptyPath == ""

\* the inputs of the builder: m_name and m_path
NameInputs == {"a", "b", ""}
DirInputs == {"/tmp", "/tmp/", ""}

isValidFileName(name) == name # ""

isValidPathToDirectory(path) == path # ""

doesEndWithPathSeparator(path) == path \in {"/", "/tmp/"}

\* fileLockPath of FileLockBuilder::create
FilePath(path, name) ==
    (IF doesEndWithPathSeparator(path) THEN path ELSE path \o IOX_PATH_SEPARATOR)
        \o name \o LOCK_FILE_SUFFIX

Paths ==
    {FilePath(d, n) : d \in {x \in DirInputs : isValidPathToDirectory(x)},
                      n \in {x \in NameInputs : isValidFileName(x)}}

\* a file system with room for one lock file per path
Inodes == 1 .. Cardinality(Paths)

(***************************************************************************)
(* Error translation                                                       *)
(***************************************************************************)
\* what a system call that succeeded reports in place of an errno
NoError == "OK"

Errnos ==
    {"EACCES", "EDQUOT", "EFAULT", "EFBIG", "EOVERFLOW", "ELOOP", "EMFILE",
     "ENFILE", "ENODEV", "ENOENT", "ENOMEM", "ENOSPC", "ENOSYS", "ENXIO",
     "EPERM", "EROFS", "ETXTBSY", "EWOULDBLOCK", "ENOLCK", "EIO",
     "EEXIST", "EBADF", "EINTR", "EINVAL"}

\* the translation of a component that knows the contention case only
convertErrnoToFileLockError_ContentionOnly(errnum) ==
    IF errnum = "EWOULDBLOCK" THEN "LOCKED_BY_OTHER_PROCESS" ELSE "INTERNAL_LOGIC_ERROR"

convertErrnoToFileLockError(errnum) ==
    CASE errnum = "EACCES" -> "ACCESS_DENIED"
      [] errnum = "EDQUOT" -> "QUOTA_EXHAUSTED"
      [] errnum = "EFAULT" -> "ACCESS_DENIED"
      [] errnum \in {"EFBIG", "EOVERFLOW"} -> "FILE_TOO_LARGE"
      [] errnum = "ELOOP" -> "INVALID_FILE_NAME"
      [] errnum = "EMFILE" -> "PROCESS_LIMIT"
      [] errnum = "ENFILE" -> "SYSTEM_LIMIT"
      [] errnum = "ENODEV" -> "ACCESS_DENIED"
      [] errnum = "ENOENT" -> "NO_SUCH_DIRECTORY"
      [] errnum = "ENOMEM" -> "OUT_OF_MEMORY"
      [] errnum = "ENOSPC" -> "QUOTA_EXHAUSTED"
      [] errnum = "ENOSYS" -> "SYS_CALL_NOT_IMPLEMENTED"
      [] errnum = "ENXIO" -> "SPECIAL_FILE"
      [] errnum = "EPERM" -> "ACCESS_DENIED"
      [] errnum = "EROFS" -> "INVALID_FILE_NAME"
      [] errnum = "ETXTBSY" -> "FILE_IN_USE"
      [] errnum = "EWOULDBLOCK" -> "LOCKED_BY_OTHER_PROCESS"
      [] errnum = "ENOLCK" -> "SYSTEM_LIMIT"
      [] errnum = "EIO" -> "I_O_ERROR"
      [] OTHER -> "INTERNAL_LOGIC_ERROR"

\* platform::IOX_LOCK_FILE_PATH_PREFIX, the directory of lock files of the platform
IOX_LOCK_FILE_PATH_PREFIX == "/tmp/"

\* IOX_LOG(ERROR) << ... of convertErrnoToFileLockError: the messages the call
\* for errnum sends to the log, each one the sequence of what is streamed into it
LoggedByConvertErrno(errnum, fileLockPath) ==
    LET quoted(before, after) == <<<<before \o "\"", fileLockPath, "\"" \o after>>>>
    IN CASE errnum = "EACCES" -> quoted("permission denied for file lock ", "")
         [] errnum = "EDQUOT" -> quoted("user disk quota exhausted for file lock ", "")
         [] errnum = "EFAULT" -> quoted("outside address space error for file lock ", "")
         [] errnum \in {"EFBIG", "EOVERFLOW"} -> quoted("file lock ", " is too large to be openend")
         [] errnum = "ELOOP" -> quoted("too many symbolic links for file lock ", "")
         [] errnum = "EMFILE" -> quoted("process limit reached for file lock ", "")
         [] errnum = "ENFILE" -> quoted("system limit reached for file lock ", "")
         [] errnum = "ENODEV" -> quoted("permission to access file lock denied ", "")
         [] errnum = "ENOENT" ->
                <<<<"directory \"", IOX_LOCK_FILE_PATH_PREFIX, "\" does not exist.">>>>
         [] errnum = "ENOMEM" -> quoted("out of memory for file lock ", "")
         [] errnum = "ENOSPC" -> quoted("Device has no space for file lock ", "")
         [] errnum = "ENOSYS" -> quoted("open() not implemented for filesystem to ", "")
         [] errnum = "ENXIO" ->
                quoted("", " is a special file and no corresponding device exists")
         [] errnum = "EPERM" -> quoted("permission denied to file lock ", "")
         [] errnum = "EROFS" -> quoted("read only error for file lock ", "")
         [] errnum = "ETXTBSY" ->
                quoted("write access requested for file lock ", " in use")
         [] errnum = "EWOULDBLOCK" -> <<>>
         [] errnum = "ENOLCK" -> quoted("system limit for locks reached for file lock ", "")
         [] errnum = "EIO" -> quoted("I/O for file lock ", "")
         [] OTHER -> quoted("internal logic error in file lock ", " occurred")

(***************************************************************************)
(* State                                                                   *)
(***************************************************************************)
VARIABLES
    files,       \* the directory: path -> inode, NoInode when no file is there
    lockOwner,   \* flock state: inode -> the open file description <<p, fd>> holding it
    fdtab,       \* descriptor table of each process: fd -> inode, NoInode when closed
    obj,         \* the FileLock objects of each process: m_fd, m_fileLockPath
    pc,          \* where each process is inside create / closeFileDescriptor
    ctx,         \* the locals of the call a process is in
    acq,         \* history: the <<descriptor, path>> create() handed out to a process
                 \* and no closeFileDescriptor of that process took yet
    event,       \* history: the last step taken, its system call and what it returned
    shm,         \* the SharedMemoryObject: allocator and m_allocationFinalized
    allocs,      \* history: the regions allocate() has returned, in order
    seg,         \* the named shared-memory segment of the system: exists, size, bytes
    thr,         \* every thread that calls SharedMemoryObjectBuilder::create: its
                 \* configuration, its position in create() and what create() returned
    proc,        \* per process: alive, sigbusHandlerMutex, the SIGBUS disposition,
                 \* sigbusErrorMessage and what was written to the error stream
    writeZeros,  \* platform::IOX_SHM_WRITE_ZEROS_ON_CREATION
    conv,        \* convertErrnoToFileLockError: its last call, what it returned and
                 \* everything it has sent to the log
    fn,          \* the storable_function objects: m_vtable, m_storage, m_storedObj,
                 \* m_function
    lifetime     \* history: what went wrong with the lifetime of a stored functor

flVars == <<files, lockOwner, fdtab, obj, pc, ctx, acq>>
buildVars == <<seg, thr, proc, writeZeros>>
shmVars == <<shm, allocs, buildVars>>
utilVars == <<conv, fn, lifetime>>
vars == <<files, lockOwner, fdtab, obj, pc, ctx, acq, event, shm, allocs, seg, thr, proc,
          writeZeros, conv, fn, lifetime>>

\* the values of errnum: the errnos of the system and 0
ErrnoInputs == Errnos \cup {NoError}

NoConversion == [errnum |-> NoError, fileLockPath |-> EmptyPath, result |-> "none", log |-> <<>>]

\* the storable_function objects of the program
FnSlots == 1 .. NumFuncs

\* the local tmp of swap, lines 204 and 212
TmpFn == 0

\* the types of the functors stored; a vtable is named by the type T of its
\* copy<T>, move<T> and destroy<T>
FunctorTypes == {"FunctorA", "FunctorB"}

\* static_storage before allocate and after deallocate; object is the type of
\* the functor alive in it
NoStorage == [inUse |-> FALSE, object |-> "none"]

\* the members as their initialisers leave them, lines 57-59 and 218-223
DefaultFunction ==
    [exists |-> TRUE, m_vtable |-> "nullptr", m_storage |-> NoStorage,
     m_storedObj |-> "nullptr", m_function |-> "nullptr"]

NoFunction == [DefaultFunction EXCEPT !.exists = FALSE]

NoLifetimeError == [destroyedDead |-> FALSE, readDead |-> FALSE, leaked |-> FALSE]

UtilInit ==
    /\ conv = NoConversion
    /\ fn = [i \in FnSlots \cup {TmpFn} |-> NoFunction]
    /\ lifetime = NoLifetimeError

NoObject == [live |-> FALSE, m_fd |-> INVALID_FD, m_fileLockPath |-> EmptyPath]

\* m_fd and m_fileLockPath of a FileLock before any assignment to them
DefaultFileLock == [live |-> TRUE, m_fd |-> INVALID_FD, m_fileLockPath |-> EmptyPath]

NoCtx ==
    [slot |-> NullRef, rhs |-> NullRef, fd |-> INVALID_FD, path |-> EmptyPath,
     cont |-> "none", cleanupFailed |-> FALSE, lockErrno |-> "OK"]

\* op: the operation, call: the system call of this step, errno: how the call ended,
\* result: what the operation returned in this step ("pending" while it runs on)
Ev(op, p, slot, rhs, call, errno, result) ==
    [op |-> op, p |-> p, slot |-> slot, rhs |-> rhs, call |-> call, errno |-> errno,
     result |-> result]

(***************************************************************************)
(* The operating system                                                    *)
(***************************************************************************)
Min(S) == CHOOSE x \in S : \A y \in S : x <= y

OpenFds(p) == {fd \in FDs : fdtab[p][fd] # NoInode}

InodesInUse ==
    ({files[pa] : pa \in Paths}
        \cup {fdtab[p][fd] : p \in Procs, fd \in FDs}) \ {NoInode}

FreeInodes == Inodes \ InodesInUse

\* errors the environment may raise on a call, whatever the state
InjectedOpenErrnos == {"EACCES"}
InjectedLockErrnos == {"ENOLCK"}
InjectedUnlockErrnos == {"EINTR"}
InjectedCloseErrnos == {"EIO"}
InjectedRemoveErrnos == {"EPERM"}
InjectedErrnos ==
    InjectedOpenErrnos \cup InjectedLockErrnos \cup InjectedUnlockErrnos
        \cup InjectedCloseErrnos \cup InjectedRemoveErrnos

\* the errors the state of the system yields when its tables are full
ExhaustedErrnos == {"EMFILE", "ENOSPC"}

Outcomes(semantic, injectable) == {semantic} \cup injectable

\* open(path, flags of mode, permission)
OpenErrno(p, path, mode) ==
    IF FDs \ OpenFds(p) = {} THEN "EMFILE"
    ELSE IF mode = "EXCLUSIVE_CREATE" /\ files[path] # NoInode THEN "EEXIST"
    ELSE IF mode = "OPEN_EXISTING" /\ files[path] = NoInode THEN "ENOENT"
    ELSE IF files[path] = NoInode /\ FreeInodes = {} THEN "ENOSPC"
    ELSE NoError

OpenedInode(path) == IF files[path] # NoInode THEN files[path] ELSE Min(FreeInodes)

\* flock(fd, LOCK_EX | LOCK_NB): the lock belongs to the open file description
FlockErrno(p, fd) ==
    IF fd \notin FDs \/ fdtab[p][fd] = NoInode THEN "EBADF"
    ELSE IF lockOwner[fdtab[p][fd]] \notin {NoOwner, <<p, fd>>} THEN "EWOULDBLOCK"
    ELSE NoError

\* flock(fd, LOCK_UN)
UnlockErrno(p, fd) == IF fd \notin FDs \/ fdtab[p][fd] = NoInode THEN "EBADF" ELSE NoError

Unlocked(p, fd) ==
    [i \in Inodes |-> IF lockOwner[i] = <<p, fd>> THEN NoOwner ELSE lockOwner[i]]

\* close(fd): the open file description goes, and with it the lock it holds.
\* A close that reports EIO or EINTR has released the descriptor all the same
\* (close(2)); only EBADF leaves the table as it was.
CloseErrno(p, fd) == IF fd \notin FDs \/ fdtab[p][fd] = NoInode THEN "EBADF" ELSE NoError

Closed(p, fd) == IF fd \in FDs THEN [fdtab EXCEPT ![p][fd] = NoInode] ELSE fdtab

\* remove(path)
RemoveErrno(path) == IF path \notin Paths \/ files[path] = NoInode THEN "ENOENT" ELSE NoError

Removed(path) == [files EXCEPT ![path] = NoInode]

(***************************************************************************)
(* SharedMemoryObject state (operations follow below)                      *)
(***************************************************************************)
\* the alignments a caller asks for; the mapping starts on a page boundary
Alignments == {1, 2, 4, 8}
BaseAddresses == {16, 32}

\* a builder that gives the allocator one byte more than was mapped
NewShm_LongerAllocator(base) ==
    [m_startAddress |-> base, m_length |-> MemorySize + 1, m_currentPosition |-> 0,
     m_memorySizeInBytes |-> MemorySize, m_allocationFinalized |-> FALSE]

NewShm(base) ==
    [m_startAddress |-> base, m_length |-> MemorySize, m_currentPosition |-> 0,
     m_memorySizeInBytes |-> MemorySize, m_allocationFinalized |-> FALSE]

ShmInit == NewShm(16)

(***************************************************************************)
(* SharedMemoryObjectBuilder state (create() follows below)                *)
(***************************************************************************)
Threads == 1 .. NumThreads

\* a caller of create(): thread t of process p
Callers == Procs \X Threads

OpenModes == {"OPEN_EXISTING", "OPEN_OR_CREATE", "EXCLUSIVE_CREATE"}

\* m_memorySizeInBytes of the builder
SizeInputs == {1, MemorySize}

\* m_name of the builder
ShmNames == {"test_shm", "other_shm"}

\* the configuration of a builder: m_name, m_openMode and m_memorySizeInBytes
Configs == [name : ShmNames, openMode : OpenModes, sizeInBytes : SizeInputs]

NoConfig == [name |-> "", openMode |-> "", sizeInBytes |-> 0]

\* sigbusErrorMessage as the static initialisation leaves it
NoMessage == [text |-> "", name |-> "", openMode |-> "", sizeInBytes |-> 0]

\* the dispositions of SIGBUS a process can have when create() is called
Dispositions == {"SIG_DFL", "SIG_IGN"}

Bytes == 1 .. MemorySize

NoSegment == [exists |-> FALSE, size |-> 0, cells |-> [b \in Bytes |-> 0]]

NoCaller == <<0, 0>>

IdleThread ==
    [pc |-> "idle", cfg |-> NoConfig, ownership |-> FALSE, previous |-> "none",
     tookMutex |-> FALSE, installed |-> FALSE, wrote |-> FALSE, errno |-> "OK",
     result |-> "none"]

NewProcess(disposition) ==
    [alive |-> TRUE, mutex |-> NoCaller, handler |-> disposition,
     sigbusErrorMessage |-> NoMessage, stderr |-> NoMessage, initial |-> disposition]

BuildInit ==
    /\ seg = [n \in ShmNames |-> NoSegment]
    /\ thr = [c \in Callers |-> IdleThread]
    /\ proc = [p \in Procs |-> NewProcess("SIG_DFL")]
    /\ writeZeros = TRUE

Init ==
    /\ files = [pa \in Paths |-> NoInode]
    /\ lockOwner = [i \in Inodes |-> NoOwner]
    /\ fdtab = [p \in Procs |-> [fd \in FDs |-> NoInode]]
    /\ obj = [p \in Procs |-> [s \in Slots |-> NoObject]]
    /\ pc = [p \in Procs |-> "idle"]
    /\ ctx = [p \in Procs |-> NoCtx]
    /\ acq = [p \in Procs |-> {}]
    /\ event = Ev("init", 0, NullRef, NullRef, "none", "OK", "OK")
    /\ shm = ShmInit
    /\ allocs = <<>>
    /\ BuildInit
    /\ UtilInit

(***************************************************************************)
(* FileLockBuilder::create                                                 *)
(***************************************************************************)
\* a create() that asks for O_EXCL: a lock file left behind blocks it
CreateOpenMode_Exclusive == "EXCLUSIVE_CREATE"

\* convertToOflags(AccessMode::READ_ONLY, OpenMode::OPEN_OR_CREATE)
CreateOpenMode == "OPEN_OR_CREATE"

\* lines 38-69: the two validity checks and the open call
CreateOpen(p, s, m_path, m_name) ==
    /\ pc[p] = "idle"
    /\ ~obj[p][s].live
    /\ IF ~isValidFileName(m_name)
       THEN /\ event' = Ev("create", p, s, NullRef, "none", "OK", "INVALID_FILE_NAME")
            /\ UNCHANGED <<flVars, utilVars>>
       ELSE IF ~isValidPathToDirectory(m_path)
       THEN /\ event' = Ev("create", p, s, NullRef, "none", "OK", "INVALID_PATH")
            /\ UNCHANGED <<flVars, utilVars>>
       ELSE LET fileLockPath == FilePath(m_path, m_name)
            IN \E e \in Outcomes(OpenErrno(p, fileLockPath, CreateOpenMode), InjectedOpenErrnos) :
                IF e # "OK"
                THEN /\ event' = Ev("create", p, s, NullRef, "open", e,
                                    convertErrnoToFileLockError(e))
                     /\ UNCHANGED <<flVars, utilVars>>
                ELSE LET fileDescriptor == Min(FDs \ OpenFds(p))
                         inode == OpenedInode(fileLockPath)
                     IN /\ files' = [files EXCEPT ![fileLockPath] = inode]
                        /\ fdtab' = [fdtab EXCEPT ![p][fileDescriptor] = inode]
                        /\ pc' = [pc EXCEPT ![p] = "create_lock"]
                        /\ ctx' = [ctx EXCEPT ![p] =
                                     [NoCtx EXCEPT !.slot = s, !.fd = fileDescriptor,
                                                   !.path = fileLockPath]]
                        /\ event' = Ev("create", p, s, NullRef, "open", "OK", "pending")
                        /\ UNCHANGED <<lockOwner, obj, acq>>
    /\ UNCHANGED <<shmVars, utilVars>>

\* lines 71-77 and 89: the flock call; on success the FileLock is constructed
CreateLock(p) ==
    /\ pc[p] = "create_lock"
    /\ LET fileDescriptor == ctx[p].fd
           s == ctx[p].slot
       IN \E e \in Outcomes(FlockErrno(p, fileDescriptor), InjectedLockErrnos) :
            IF e = "OK"
            THEN /\ lockOwner' = [lockOwner EXCEPT ![fdtab[p][fileDescriptor]] =
                                    <<p, fileDescriptor>>]
                 /\ obj' = [obj EXCEPT ![p][s] =
                              [live |-> TRUE, m_fd |-> fileDescriptor,
                               m_fileLockPath |-> ctx[p].path]]
                 /\ acq' = [acq EXCEPT ![p] = @ \cup {<<fileDescriptor, ctx[p].path>>}]
                 /\ pc' = [pc EXCEPT ![p] = "idle"]
                 /\ ctx' = [ctx EXCEPT ![p] = NoCtx]
                 /\ event' = Ev("create", p, s, NullRef, "flock", "OK", "OK")
                 /\ UNCHANGED <<files, fdtab>>
            ELSE /\ pc' = [pc EXCEPT ![p] = "create_close"]
                 /\ ctx' = [ctx EXCEPT ![p].lockErrno = e]
                 /\ event' = Ev("create", p, s, NullRef, "flock", e, "pending")
                 /\ UNCHANGED <<files, lockOwner, fdtab, obj, acq>>
    /\ UNCHANGED <<shmVars, utilVars>>

\* a create that lets the error of close override the error of flock
CreateError_FromClose(lockErrno, closeErrno) ==
    convertErrnoToFileLockError(IF closeErrno # "OK" THEN closeErrno ELSE lockErrno)

\* line 86: the error create returns when flock has failed
CreateError(lockErrno, closeErrno) == convertErrnoToFileLockError(lockErrno)

\* lines 79-86: the descriptor is closed and the flock error is returned
CreateClose(p) ==
    /\ pc[p] = "create_close"
    /\ LET fileDescriptor == ctx[p].fd
       IN \E e \in Outcomes(CloseErrno(p, fileDescriptor), InjectedCloseErrnos) :
            /\ fdtab' = IF e # "EBADF" THEN Closed(p, fileDescriptor) ELSE fdtab
            /\ lockOwner' = IF e # "EBADF" THEN Unlocked(p, fileDescriptor) ELSE lockOwner
            /\ event' = Ev("create", p, ctx[p].slot, NullRef, "close", e,
                           CreateError(ctx[p].lockErrno, e))
    /\ pc' = [pc EXCEPT ![p] = "idle"]
    /\ ctx' = [ctx EXCEPT ![p] = NoCtx]
    /\ UNCHANGED <<files, obj, acq, shmVars, utilVars>>

(***************************************************************************)
(* FileLock::closeFileDescriptor, the destructor and the move operations   *)
(***************************************************************************)
\* an invalidate that leaves the descriptor in the moved-from object
invalidate_KeepFd(o) == [o EXCEPT !.m_fileLockPath = EmptyPath]

\* FileLock::invalidate
invalidate(o) == [o EXCEPT !.m_fd = INVALID_FD, !.m_fileLockPath = EmptyPath]

\* an operator= that forgets to take the path of the source
Transfer_KeepPath(objs, s, rhs) ==
    [objs EXCEPT ![s] = [live |-> TRUE, m_fd |-> objs[rhs].m_fd,
                         m_fileLockPath |-> objs[s].m_fileLockPath],
                 ![rhs] = invalidate(objs[rhs])]

\* operator=, lines 121-124: what follows closeFileDescriptor()
Transfer(objs, s, rhs) ==
    [objs EXCEPT ![s] = [live |-> TRUE, m_fd |-> objs[rhs].m_fd,
                         m_fileLockPath |-> objs[rhs].m_fileLockPath],
                 ![rhs] = invalidate(objs[rhs])]

\* a closeFileDescriptor that drops cleanupFailed
CleanupResult_AlwaysOk(cleanupFailed) == "OK"

\* the result of closeFileDescriptor, lines 165-170
CleanupResult(cleanupFailed) == IF cleanupFailed THEN "INTERNAL_LOGIC_ERROR" ELSE "OK"

\* the descriptor table and the locks once the system has ended process p
TerminatedFds(p) == [fdtab EXCEPT ![p] = [fd \in FDs |-> NoInode]]

TerminatedLocks(p) ==
    [i \in Inodes |-> IF lockOwner[i][1] = p THEN NoOwner ELSE lockOwner[i]]

\* the caller's code after closeFileDescriptor() has returned: the destructor
\* ends the object, operator= goes on to lines 121-124. Reading m_fileLockPath
\* through a reference bound to no object faults, and the system ends the process.
AfterClose(p, s, rhs, cont, call, errno, cleanupFailed) ==
    IF cont = "move" /\ rhs = NullRef
    THEN /\ obj' = [obj EXCEPT ![p] = [x \in Slots |-> NoObject]]
         /\ fdtab' = TerminatedFds(p)
         /\ lockOwner' = TerminatedLocks(p)
         /\ event' = Ev(cont, p, s, rhs, call, errno, "terminated")
         /\ pc' = [pc EXCEPT ![p] = "crashed"]
         /\ ctx' = [ctx EXCEPT ![p] = NoCtx]
    ELSE /\ obj' = [obj EXCEPT ![p] = IF cont = "dtor" THEN [@ EXCEPT ![s] = NoObject]
                                      ELSE Transfer(@, s, rhs)]
         /\ event' = Ev(cont, p, s, rhs, call, errno, CleanupResult(cleanupFailed))
         /\ pc' = [pc EXCEPT ![p] = "idle"]
         /\ ctx' = [ctx EXCEPT ![p] = NoCtx]
         /\ UNCHANGED <<fdtab, lockOwner>>

\* closeFileDescriptor, lines 140-151: the test of m_fd and the unlock call
CloseFileDescriptor(p, s, rhs, cont) ==
    IF obj[p][s].m_fd # INVALID_FD
    THEN \E e \in Outcomes(UnlockErrno(p, obj[p][s].m_fd), InjectedUnlockErrnos) :
            /\ lockOwner' = IF e = "OK" THEN Unlocked(p, obj[p][s].m_fd) ELSE lockOwner
            /\ pc' = [pc EXCEPT ![p] = "rel_close"]
            /\ ctx' = [ctx EXCEPT ![p] =
                         [NoCtx EXCEPT !.slot = s, !.rhs = rhs, !.cont = cont,
                                       !.cleanupFailed = (e # "OK")]]
            /\ acq' = [acq EXCEPT ![p] = @ \ {<<obj[p][s].m_fd, obj[p][s].m_fileLockPath>>}]
            /\ event' = Ev(cont, p, s, rhs, "unlock", e, "pending")
            /\ UNCHANGED <<files, fdtab, obj>>
    ELSE /\ AfterClose(p, s, rhs, cont, "none", "OK", FALSE)
         /\ UNCHANGED <<files, acq>>

\* closeFileDescriptor, lines 153-157: the close call
RelClose(p) ==
    /\ pc[p] = "rel_close"
    /\ LET m_fd == obj[p][ctx[p].slot].m_fd
       IN \E e \in Outcomes(CloseErrno(p, m_fd), InjectedCloseErrnos) :
            /\ fdtab' = IF e # "EBADF" THEN Closed(p, m_fd) ELSE fdtab
            /\ lockOwner' = IF e # "EBADF" THEN Unlocked(p, m_fd) ELSE lockOwner
            /\ ctx' = [ctx EXCEPT ![p].cleanupFailed = @ \/ e # "OK"]
            /\ event' = Ev(ctx[p].cont, p, ctx[p].slot, ctx[p].rhs, "close", e, "pending")
    /\ pc' = [pc EXCEPT ![p] = "rel_remove"]
    /\ UNCHANGED <<files, obj, acq, shmVars, utilVars>>

\* closeFileDescriptor, lines 159-170: the remove call and the result
RelRemove(p) ==
    /\ pc[p] = "rel_remove"
    /\ LET s == ctx[p].slot
           m_fileLockPath == obj[p][s].m_fileLockPath
       IN \E e \in Outcomes(RemoveErrno(m_fileLockPath), InjectedRemoveErrnos) :
            /\ files' = IF e = "OK" THEN Removed(m_fileLockPath) ELSE files
            /\ AfterClose(p, s, ctx[p].rhs, ctx[p].cont, "remove", e,
                          ctx[p].cleanupFailed \/ e # "OK")
    /\ UNCHANGED <<acq, shmVars, utilVars>>

\* FileLock::~FileLock
Destructor(p, s) ==
    /\ pc[p] = "idle"
    /\ obj[p][s].live
    /\ CloseFileDescriptor(p, s, NullRef, "dtor")
    /\ UNCHANGED <<shmVars, utilVars>>

\* a guard without the test for self-assignment
MoveGuard_NoSelfTest(p, s, rhs) == rhs # NullRef

\* a guard that also skips a source holding the sentinel descriptor
MoveGuard_SkipInvalidSource(p, s, rhs) ==
    s # rhs /\ rhs # NullRef /\ obj[p][rhs].m_fd # INVALID_FD

\* the guard of operator=, line 113, as written
MoveGuard(p, s, rhs) == s # rhs /\ rhs # NullRef

\* what the guard evaluates to. A reference bound to no object is undefined
\* behaviour, and so is the pointer arithmetic of line 112 on its address: the
\* build may keep the second test or take it for always true.
GuardOutcomes(p, s, rhs) ==
    IF rhs = NullRef THEN {MoveGuard(p, s, rhs), s # rhs} ELSE {MoveGuard(p, s, rhs)}

\* FileLock::operator=(FileLock&&)
MoveAssign(p, s, rhs) ==
    /\ pc[p] = "idle"
    /\ obj[p][s].live
    /\ IF rhs = NullRef THEN TRUE ELSE obj[p][rhs].live
    /\ \E taken \in GuardOutcomes(p, s, rhs) :
        IF taken
        THEN CloseFileDescriptor(p, s, rhs, "move")
        ELSE /\ event' = Ev("move", p, s, rhs, "none", "OK", "ignored")
             /\ UNCHANGED <<flVars, utilVars>>
    /\ UNCHANGED <<shmVars, utilVars>>

\* FileLock::FileLock(FileLock&&): a new object, then *this = std::move(rhs)
MoveConstruct(p, s, rhs) ==
    /\ pc[p] = "idle"
    /\ ~obj[p][s].live
    /\ IF rhs = NullRef THEN TRUE ELSE obj[p][rhs].live
    /\ \E taken \in GuardOutcomes(p, s, rhs) :
        IF ~taken
        THEN /\ obj' = [obj EXCEPT ![p][s] = DefaultFileLock]
             /\ event' = Ev("construct", p, s, rhs, "none", "OK", "ignored")
             /\ UNCHANGED <<fdtab, lockOwner, pc>>
        ELSE IF rhs = NullRef
        THEN /\ obj' = [obj EXCEPT ![p] = [x \in Slots |-> NoObject]]
             /\ fdtab' = TerminatedFds(p)
             /\ lockOwner' = TerminatedLocks(p)
             /\ pc' = [pc EXCEPT ![p] = "crashed"]
             /\ event' = Ev("construct", p, s, rhs, "none", "OK", "terminated")
        ELSE /\ obj' = [obj EXCEPT ![p] = Transfer([@ EXCEPT ![s] = DefaultFileLock], s, rhs)]
             /\ event' = Ev("construct", p, s, rhs, "none", "OK", "OK")
             /\ UNCHANGED <<fdtab, lockOwner, pc>>
    /\ UNCHANGED <<files, ctx, acq, shmVars, utilVars>>

(***************************************************************************)
(* Abnormal termination of a process: the system closes its descriptors,   *)
(* which drops the locks they hold; no code of the process runs, so the    *)
(* lock files stay and acq keeps what the process never released.          *)
(***************************************************************************)
Crash(p) ==
    /\ pc[p] # "crashed"
    /\ fdtab' = TerminatedFds(p)
    /\ lockOwner' = TerminatedLocks(p)
    /\ obj' = [obj EXCEPT ![p] = [s \in Slots |-> NoObject]]
    /\ pc' = [pc EXCEPT ![p] = "crashed"]
    /\ ctx' = [ctx EXCEPT ![p] = NoCtx]
    /\ event' = Ev("crash", p, NullRef, NullRef, "none", "OK", "OK")
    /\ UNCHANGED <<files, acq, shmVars, utilVars>>

(***************************************************************************)
(* SharedMemoryObject::allocate and finalizeAllocation                     *)
(***************************************************************************)
ShmEv(op, size, alignment, result, ptr) ==
    [op |-> op, size |-> size, alignment |-> alignment, result |-> result, ptr |-> ptr]

\* an expected that holds an error holds no address
NoAddress == NullRef

\* align(value, alignment): the next multiple of alignment
align(value, alignment) == ((value + alignment - 1) \div alignment) * alignment

\* BumpAllocator::allocate on the allocator state a
BumpAllocate(a, size, alignment) ==
    LET alignedPosition == align(a.m_startAddress + a.m_currentPosition, alignment)
                               - a.m_startAddress
    IN IF size = 0
       THEN [error |-> "REQUESTED_ZERO_SIZED_MEMORY", ptr |-> NoAddress, state |-> a]
       ELSE IF a.m_length >= alignedPosition + size
       THEN [error |-> "OK", ptr |-> a.m_startAddress + alignedPosition,
             state |-> [a EXCEPT !.m_currentPosition = alignedPosition + size]]
       ELSE [error |-> "OUT_OF_MEMORY", ptr |-> NoAddress, state |-> a]

\* allocate with the test of the finalized flag put before the test of the size
allocate_FinalizedFirst(a, size, alignment) ==
    IF a.m_allocationFinalized
    THEN [result |-> "REQUESTED_MEMORY_AFTER_FINALIZED_ALLOCATION", ptr |-> NoAddress,
          state |-> a]
    ELSE IF size = 0
    THEN [result |-> "REQUESTED_ZERO_SIZED_MEMORY", ptr |-> NoAddress, state |-> a]
    ELSE LET allocationResult == BumpAllocate(a, size, alignment)
         IN IF allocationResult.error # "OK"
            THEN [result |-> "NOT_ENOUGH_MEMORY", ptr |-> NoAddress,
                  state |-> allocationResult.state]
            ELSE [result |-> "OK", ptr |-> allocationResult.ptr,
                  state |-> allocationResult.state]

\* allocate without the test of the finalized flag
allocate_IgnoreFinalized(a, size, alignment) ==
    IF size = 0
    THEN [result |-> "REQUESTED_ZERO_SIZED_MEMORY", ptr |-> NoAddress, state |-> a]
    ELSE LET allocationResult == BumpAllocate(a, size, alignment)
         IN IF allocationResult.error # "OK"
            THEN [result |-> "NOT_ENOUGH_MEMORY", ptr |-> NoAddress,
                  state |-> allocationResult.state]
            ELSE [result |-> "OK", ptr |-> allocationResult.ptr,
                  state |-> allocationResult.state]

\* allocate that hands the allocator's error through untranslated
allocate_UntranslatedError(a, size, alignment) ==
    IF size = 0
    THEN [result |-> "REQUESTED_ZERO_SIZED_MEMORY", ptr |-> NoAddress, state |-> a]
    ELSE IF a.m_allocationFinalized
    THEN [result |-> "REQUESTED_MEMORY_AFTER_FINALIZED_ALLOCATION", ptr |-> NoAddress,
          state |-> a]
    ELSE LET allocationResult == BumpAllocate(a, size, alignment)
         IN [result |-> allocationResult.error, ptr |-> allocationResult.ptr,
             state |-> allocationResult.state]

\* SharedMemoryObject::allocate: the result, the pointer and the object afterwards
allocate(a, size, alignment) ==
    IF size = 0
    THEN [result |-> "REQUESTED_ZERO_SIZED_MEMORY", ptr |-> NoAddress, state |-> a]
    ELSE IF a.m_allocationFinalized
    THEN [result |-> "REQUESTED_MEMORY_AFTER_FINALIZED_ALLOCATION", ptr |-> NoAddress,
          state |-> a]
    ELSE LET allocationResult == BumpAllocate(a, size, alignment)
         IN IF allocationResult.error # "OK"
            THEN [result |-> "NOT_ENOUGH_MEMORY", ptr |-> NoAddress,
                  state |-> allocationResult.state]
            ELSE [result |-> "OK", ptr |-> allocationResult.ptr,
                  state |-> allocationResult.state]

Allocate(size, alignment) ==
    /\ LET r == allocate(shm, size, alignment)
       IN /\ shm' = r.state
          /\ event' = ShmEv("allocate", size, alignment, r.result, r.ptr)
          /\ allocs' = IF r.result = "OK"
                       THEN Append(allocs, [ptr |-> r.ptr, size |-> size,
                                            alignment |-> alignment])
                       ELSE allocs
    /\ UNCHANGED <<flVars, buildVars, utilVars>>

\* SharedMemoryObject::finalizeAllocation
FinalizeAllocation ==
    /\ shm' = [shm EXCEPT !.m_allocationFinalized = TRUE]
    /\ event' = ShmEv("finalizeAllocation", 0, 1, "OK", NoAddress)
    /\ UNCHANGED <<allocs, flVars, buildVars, utilVars>>

ShmFileLockInit ==
    /\ files = [pa \in Paths |-> NoInode]
    /\ lockOwner = [i \in Inodes |-> NoOwner]
    /\ fdtab = [p \in Procs |-> [fd \in FDs |-> NoInode]]
    /\ obj = [p \in Procs |-> [s \in Slots |-> NoObject]]
    /\ pc = [p \in Procs |-> "idle"]
    /\ ctx = [p \in Procs |-> NoCtx]
    /\ acq = [p \in Procs |-> {}]

\* the object as SharedMemoryObjectBuilder::create returns it (line 112 and 154)
InitShm ==
    /\ ShmFileLockInit
    /\ \E base \in BaseAddresses : shm = NewShm(base)
    /\ allocs = <<>>
    /\ BuildInit
    /\ UtilInit
    /\ event = ShmEv("create", 0, 1, "OK", NoAddress)

NextShm ==
    \/ \E size \in 0 .. MemorySize + 1, alignment \in Alignments : Allocate(size, alignment)
    \/ FinalizeAllocation

SpecShm == InitShm /\ [][NextShm]_vars

\* SharedMemoryObject::getBumpAllocator, lines 198-201: a reference to
\* m_allocator, on which the caller calls BumpAllocator::allocate
AllocateFromBumpAllocator(size, alignment) ==
    /\ LET r == BumpAllocate(shm, size, alignment)
       IN /\ shm' = r.state
          /\ event' = ShmEv("getBumpAllocator().allocate", size, alignment, r.error, r.ptr)
          /\ allocs' = IF r.error = "OK"
                       THEN Append(allocs, [ptr |-> r.ptr, size |-> size,
                                            alignment |-> alignment])
                       ELSE allocs
    /\ UNCHANGED <<flVars, buildVars, utilVars>>

\* the whole public interface of a SharedMemoryObject that touches its allocator
NextAllocator ==
    \/ \E size \in 0 .. MemorySize + 1, alignment \in Alignments : Allocate(size, alignment)
    \/ FinalizeAllocation
    \/ \E size \in 0 .. MemorySize + 1, alignment \in Alignments :
            AllocateFromBumpAllocator(size, alignment)

SpecAllocator == InitShm /\ [][NextAllocator]_vars

(***************************************************************************)
(* SharedMemoryObjectBuilder::create, one step per call it makes           *)
(***************************************************************************)
InjectedShmErrnos == {"EACCES"}
InjectedMapErrnos == {"ENOMEM"}
InjectedSignalErrnos == {"EINVAL"}

\* shm_open for the open mode: create-exclusive collides with a segment of that
\* name, open-existing needs one
ShmOpenErrno(name, openMode) ==
    IF openMode = "EXCLUSIVE_CREATE" /\ seg[name].exists THEN "EEXIST"
    ELSE IF openMode = "OPEN_EXISTING" /\ ~seg[name].exists THEN "ENOENT"
    ELSE NoError

\* the segment after a successful open: created with the size asked for and
\* zero bytes when the name was free, the existing one otherwise
ShmOpened(name, sizeInBytes) ==
    IF seg[name].exists THEN seg[name]
    ELSE [exists |-> TRUE, size |-> sizeInBytes, cells |-> [b \in Bytes |-> 0]]

\* a builder that asks for open-or-create whatever m_openMode says
PassedOpenMode_OpenOrCreate(cfg) == "OPEN_OR_CREATE"

\* .openMode(m_openMode), line 84
PassedOpenMode(cfg) == cfg.openMode

\* an accessor that claims ownership for every object
hasOwnership_Always(o) == TRUE

\* SharedMemoryObject::hasOwnership
hasOwnership(o) == o.ownership

\* a create() that zero-fills whether or not it owns the segment
ZeroFillNeeded_Always(ownership) == TRUE

\* lines 114 and 118: sharedMemory->hasOwnership() and IOX_SHM_WRITE_ZEROS_ON_CREATION
ZeroFillNeeded(ownership) == ownership /\ writeZeros

\* a lock_guard that does not wait
MutexFree_NoLock(p) == TRUE

\* std::lock_guard<std::mutex> lock(sigbusHandlerMutex) can go on, line 122
MutexFree(p) == proc[p].mutex = NoCaller

\* the message snprintf writes for a configuration, lines 134-146
Format(cfg) ==
    [text |-> "While setting the acquired shared memory to zero a fatal SIGBUS signal appeared",
     name |-> cfg.name, openMode |-> cfg.openMode, sizeInBytes |-> cfg.sizeInBytes]

\* a guard that resets SIGBUS to the default action
RestoredHandler_Default(previous) == "SIG_DFL"

\* the end of the scope of memsetSigbusGuard: the disposition it found is put back
RestoredHandler(previous) == previous

\* a handler that ends the process without a word
memsetSigbusHandler_NoWrite(pr) == [pr EXCEPT !.alive = FALSE]

\* memsetSigbusHandler: write sigbusErrorMessage to the error stream, _exit
memsetSigbusHandler(pr) ==
    [pr EXCEPT !.stderr = pr.sigbusErrorMessage, !.alive = FALSE]

\* SIGBUS reaches a process: the installed handler runs, or the process is ended
SigbusDelivered(pr) ==
    IF pr.handler = "memsetSigbusHandler" THEN memsetSigbusHandler(pr)
    ELSE [pr EXCEPT !.alive = FALSE]

Running(c, at) == proc[c[1]].alive /\ thr[c].pc = at

\* lines 81-94: SharedMemoryBuilder().create()
BuildSharedMemory(c, cfg) ==
    /\ Running(c, "idle")
    /\ \E e \in Outcomes(ShmOpenErrno(cfg.name, PassedOpenMode(cfg)), InjectedShmErrnos) :
        IF e # "OK"
        THEN /\ thr' = [thr EXCEPT ![c] = [@ EXCEPT !.pc = "returned", !.cfg = cfg,
                                             !.errno = e,
                                             !.result = "SHARED_MEMORY_CREATION_FAILED"]]
             /\ UNCHANGED seg
        ELSE /\ seg' = [seg EXCEPT ![cfg.name] = ShmOpened(cfg.name, cfg.sizeInBytes)]
             /\ thr' = [thr EXCEPT ![c] = [@ EXCEPT !.pc = "map", !.cfg = cfg,
                                             !.ownership = ~seg[cfg.name].exists]]
    /\ UNCHANGED <<proc, writeZeros, flVars, event, shm, allocs, utilVars>>

\* a create() that goes on to the fill although the mapping failed
BuildMemoryMap_IgnoreFailure(c) ==
    /\ Running(c, "map")
    /\ \E e \in Outcomes(NoError, InjectedMapErrnos) :
        thr' = [thr EXCEPT ![c] =
                  IF ZeroFillNeeded(thr[c].ownership)
                  THEN [@ EXCEPT !.pc = "lock", !.errno = e]
                  ELSE [@ EXCEPT !.pc = "returned", !.errno = e, !.result = "OK"]]
    /\ UNCHANGED <<seg, proc, writeZeros, flVars, event, shm, allocs, utilVars>>

\* lines 96-118: MemoryMapBuilder().create(), the allocator, the test of ownership;
\* lines 154-155 when nothing is to be filled
BuildMemoryMap(c) ==
    /\ Running(c, "map")
    /\ \E e \in Outcomes(NoError, InjectedMapErrnos) :
        IF e # "OK"
        THEN /\ thr' = [thr EXCEPT ![c] = [@ EXCEPT !.pc = "returned", !.errno = e,
                                             !.result = "MAPPING_SHARED_MEMORY_FAILED"]]
        ELSE /\ thr' = [thr EXCEPT ![c] =
                          IF ZeroFillNeeded(thr[c].ownership)
                          THEN [@ EXCEPT !.pc = "lock"]
                          ELSE [@ EXCEPT !.pc = "returned", !.result = "OK"]]
    /\ UNCHANGED <<seg, proc, writeZeros, flVars, event, shm, allocs, utilVars>>

\* line 122: the lock_guard takes sigbusHandlerMutex
LockMutex(c) ==
    /\ Running(c, "lock")
    /\ MutexFree(c[1])
    /\ proc' = [proc EXCEPT ![c[1]].mutex = c]
    /\ thr' = [thr EXCEPT ![c] = [@ EXCEPT !.pc = "register", !.tookMutex = TRUE]]
    /\ UNCHANGED <<seg, writeZeros, flVars, event, shm, allocs, utilVars>>

\* lines 123-129: registerSignalHandler(Signal::BUS, memsetSigbusHandler)
RegisterHandler(c) ==
    /\ Running(c, "register")
    /\ \E e \in Outcomes(NoError, InjectedSignalErrnos) :
        IF e # "OK"
        THEN /\ thr' = [thr EXCEPT ![c] = [@ EXCEPT !.pc = "returned", !.errno = e,
                                             !.result = "INTERNAL_LOGIC_FAILURE"]]
             /\ proc' = [proc EXCEPT ![c[1]].mutex =
                           IF @ = c THEN NoCaller ELSE @]
        ELSE /\ thr' = [thr EXCEPT ![c] = [@ EXCEPT !.pc = "format", !.installed = TRUE,
                                             !.previous = proc[c[1]].handler]]
             /\ proc' = [proc EXCEPT ![c[1]].handler = "memsetSigbusHandler"]
    /\ UNCHANGED <<seg, writeZeros, flVars, event, shm, allocs, utilVars>>

\* lines 134-146: snprintf into sigbusErrorMessage
FormatMessage(c) ==
    /\ Running(c, "format")
    /\ proc' = [proc EXCEPT ![c[1]].sigbusErrorMessage = Format(thr[c].cfg)]
    /\ thr' = [thr EXCEPT ![c].pc = "memset"]
    /\ UNCHANGED <<seg, writeZeros, flVars, event, shm, allocs, utilVars>>

\* line 148: memset over m_memorySizeInBytes bytes; it runs to its end, or the
\* system raises SIGBUS after some of the bytes
ZeroFill(c) ==
    /\ Running(c, "memset")
    /\ \/ /\ seg' = [seg EXCEPT ![thr[c].cfg.name].cells =
                       [b \in Bytes |-> IF b <= thr[c].cfg.sizeInBytes THEN 0 ELSE @[b]]]
          /\ thr' = [thr EXCEPT ![c] = [@ EXCEPT !.pc = "restore", !.wrote = TRUE]]
          /\ UNCHANGED proc
       \/ \E done \in 0 .. thr[c].cfg.sizeInBytes - 1 :
          /\ seg' = [seg EXCEPT ![thr[c].cfg.name].cells =
                       [b \in Bytes |-> IF b <= done THEN 0 ELSE @[b]]]
          /\ thr' = [thr EXCEPT ![c].wrote = TRUE]
          /\ proc' = [proc EXCEPT ![c[1]] = SigbusDelivered(@)]
    /\ UNCHANGED <<writeZeros, flVars, event, shm, allocs, utilVars>>

\* line 149, end of the scope: memsetSigbusGuard goes first
RestoreHandler(c) ==
    /\ Running(c, "restore")
    /\ proc' = [proc EXCEPT ![c[1]].handler = RestoredHandler(thr[c].previous)]
    /\ thr' = [thr EXCEPT ![c].pc = "unlock"]
    /\ UNCHANGED <<seg, writeZeros, flVars, event, shm, allocs, utilVars>>

\* line 149, end of the scope: the lock_guard goes last; lines 150-155: the
\* SharedMemoryObject is returned
UnlockMutex(c) ==
    /\ Running(c, "unlock")
    /\ proc' = [proc EXCEPT ![c[1]].mutex = IF @ = c THEN NoCaller ELSE @]
    /\ thr' = [thr EXCEPT ![c] = [@ EXCEPT !.pc = "returned", !.result = "OK"]]
    /\ UNCHANGED <<seg, writeZeros, flVars, event, shm, allocs, utilVars>>

\* the user of a returned object writes into the bytes it maps
UserWrite(c) ==
    /\ Running(c, "returned")
    /\ thr[c].result = "OK"
    /\ LET name == thr[c].cfg.name
           mapped == IF thr[c].cfg.sizeInBytes < seg[name].size
                     THEN thr[c].cfg.sizeInBytes ELSE seg[name].size
           written == [b \in Bytes |-> IF b <= mapped THEN 1 ELSE seg[name].cells[b]]
       IN /\ written # seg[name].cells
          /\ seg' = [seg EXCEPT ![name].cells = written]
    /\ UNCHANGED <<thr, proc, writeZeros, flVars, event, shm, allocs, utilVars>>

\* SIGBUS raised in a process by code outside create()
StraySigbus(p) ==
    /\ proc[p].alive
    /\ proc[p].handler # "SIG_IGN"
    /\ proc' = [proc EXCEPT ![p] = SigbusDelivered(@)]
    /\ UNCHANGED <<seg, thr, writeZeros, flVars, event, shm, allocs, utilVars>>

InitBuild ==
    /\ ShmFileLockInit
    /\ shm = ShmInit
    /\ allocs = <<>>
    /\ seg = [n \in ShmNames |-> NoSegment]
    /\ thr = [c \in Callers |-> IdleThread]
    /\ \E d \in Dispositions : proc = [p \in Procs |-> NewProcess(d)]
    /\ writeZeros \in BOOLEAN
    /\ UtilInit
    /\ event = Ev("init", 0, NullRef, NullRef, "none", "OK", "OK")

\* one thread in each of several processes, all with the same m_name
ProcessCallers == {c \in Callers : c[2] = 1}

SameNameConfigs == {cfg \in Configs : cfg.name = "test_shm"}

NextCreate ==
    \/ \E c \in ProcessCallers, cfg \in SameNameConfigs : BuildSharedMemory(c, cfg)
    \/ \E c \in ProcessCallers : BuildMemoryMap(c)
    \/ \E c \in ProcessCallers : LockMutex(c)
    \/ \E c \in ProcessCallers : RegisterHandler(c)
    \/ \E c \in ProcessCallers : FormatMessage(c)
    \/ \E c \in ProcessCallers : ZeroFill(c)
    \/ \E c \in ProcessCallers : RestoreHandler(c)
    \/ \E c \in ProcessCallers : UnlockMutex(c)
    \/ \E c \in ProcessCallers : UserWrite(c)

SpecCreate == InitBuild /\ [][NextCreate]_vars

\* several threads of one process, creating objects of several names
ThreadCallers == {c \in Callers : c[1] = 1}

NextThreads ==
    \/ \E c \in ThreadCallers, cfg \in Configs : BuildSharedMemory(c, cfg)
    \/ \E c \in ThreadCallers : BuildMemoryMap(c)
    \/ \E c \in ThreadCallers : LockMutex(c)
    \/ \E c \in ThreadCallers : RegisterHandler(c)
    \/ \E c \in ThreadCallers : FormatMessage(c)
    \/ \E c \in ThreadCallers : ZeroFill(c)
    \/ \E c \in ThreadCallers : RestoreHandler(c)
    \/ \E c \in ThreadCallers : UnlockMutex(c)
    \/ StraySigbus(1)

SpecThreads == InitBuild /\ [][NextThreads]_vars

(***************************************************************************)
(* FileLock::convertErrnoToFileLockError, called on its own                *)
(***************************************************************************)
\* lines 182-292: one call; the log keeps what earlier calls have sent to it
ConvertErrno(errnum, fileLockPath) ==
    /\ Len(conv.log) < MaxLog
    /\ conv' = [errnum |-> errnum, fileLockPath |-> fileLockPath,
                result |-> convertErrnoToFileLockError(errnum),
                log |-> conv.log \o LoggedByConvertErrno(errnum, fileLockPath)]
    /\ UNCHANGED <<flVars, event, shmVars, fn, lifetime>>

NextErrno == \E errnum \in ErrnoInputs, fileLockPath \in Paths : ConvertErrno(errnum, fileLockPath)

SpecErrno == Init /\ [][NextErrno]_vars

(***************************************************************************)
(* cxx::detail::storable_function (function.hpp). The operations are       *)
(* functions of w, the objects and the history: w.fn and w.lifetime        *)
(***************************************************************************)
\* static_storage::allocate<T>: refused while the storage is in use
allocate_storage(f) ==
    IF f.m_storage.inUse THEN [p |-> "nullptr", f |-> f]
    ELSE [p |-> "storage", f |-> [f EXCEPT !.m_storage.inUse = TRUE]]

\* new (p) T(...): a functor of type T comes to life in the storage of f
construct(f, T) ==
    [f EXCEPT !.m_storage.object = T, !.m_function = "stored", !.m_storedObj = "storage"]

\* reading *reinterpret_cast<T*>(src.m_storedObj): is a T alive there
ReadStored(w, src, T) ==
    [w EXCEPT !.lifetime.readDead = @ \/ w.fn[src].m_storage.object # T]

\* destroy<T>, lines 299-308
destroy(w, f, T) ==
    IF w.fn[f].m_storedObj # "nullptr"
    THEN [w EXCEPT !.lifetime.destroyedDead = @ \/ w.fn[f].m_storage.object # T,
                   !.fn[f].m_storage = NoStorage]
    ELSE w

\* vtable::destroy, lines 83-89: destroyFunction is set for functors only
vtable_destroy(w, f) ==
    IF w.fn[f].m_vtable \in FunctorTypes THEN destroy(w, f, w.fn[f].m_vtable) ELSE w

\* storeFunctor, lines 229-251
storeFunctor(w, f, T) ==
    LET a == allocate_storage(w.fn[f])
    IN IF a.p # "nullptr"
       THEN [w EXCEPT !.fn[f] = [construct(a.f, T) EXCEPT !.m_vtable = T]]
       ELSE w

\* copy<T>, lines 254-273
copy(w, src, dest, T) ==
    IF w.fn[src].m_storedObj = "nullptr"
    THEN [w EXCEPT !.fn[dest].m_storedObj = "nullptr",
                   !.fn[dest].m_function = w.fn[src].m_function]
    ELSE LET a == allocate_storage(w.fn[dest])
         IN IF a.p # "nullptr"
            THEN [ReadStored(w, src, T) EXCEPT !.fn[dest] = construct(a.f, T)]
            ELSE w

\* a move<T> that leaves the functor of the source alive
move_KeepSource(w, src, dest, T) ==
    IF w.fn[src].m_storedObj = "nullptr"
    THEN [w EXCEPT !.fn[dest].m_storedObj = "nullptr",
                   !.fn[dest].m_function = w.fn[src].m_function,
                   !.fn[src].m_function = "nullptr"]
    ELSE LET a == allocate_storage(w.fn[dest])
         IN IF a.p # "nullptr"
            THEN [ReadStored(w, src, T) EXCEPT !.fn[dest] = construct(a.f, T),
                                               !.fn[src].m_function = "nullptr",
                                               !.fn[src].m_storedObj = "nullptr"]
            ELSE w

\* move<T>, lines 275-297
move(w, src, dest, T) ==
    IF w.fn[src].m_storedObj = "nullptr"
    THEN LET moved == [w EXCEPT !.fn[dest].m_storedObj = "nullptr",
                                !.fn[dest].m_function = w.fn[src].m_function]
         IN [moved EXCEPT !.fn[src].m_function = "nullptr"]
    ELSE LET a == allocate_storage(w.fn[dest])
         IN IF a.p # "nullptr"
            THEN LET moved == [ReadStored(w, src, T) EXCEPT !.fn[dest] = construct(a.f, T)]
                     destroyed == vtable_destroy(moved, src)
                 IN [destroyed EXCEPT !.fn[src].m_function = "nullptr",
                                      !.fn[src].m_storedObj = "nullptr"]
            ELSE w

\* copyFreeFunction, lines 310-313
copyFreeFunction(w, src, dest) ==
    [w EXCEPT !.fn[dest].m_function = w.fn[src].m_function]

\* moveFreeFunction, lines 315-319
moveFreeFunction(w, src, dest) ==
    LET moved == [w EXCEPT !.fn[dest].m_function = w.fn[src].m_function]
    IN [moved EXCEPT !.fn[src].m_function = "nullptr"]

\* vtable::copy, lines 67-73, called on the vtable of dest
vtable_copy(w, src, dest) ==
    LET v == w.fn[dest].m_vtable
    IN IF v \in FunctorTypes THEN copy(w, src, dest, v)
       ELSE IF v = "free" THEN copyFreeFunction(w, src, dest)
       ELSE w

\* vtable::move, lines 75-81, called on the vtable of dest
vtable_move(w, src, dest) ==
    LET v == w.fn[dest].m_vtable
    IN IF v \in FunctorTypes THEN move(w, src, dest, v)
       ELSE IF v = "free" THEN moveFreeFunction(w, src, dest)
       ELSE w

\* storable_function(const Functor&), lines 102-105
FromFunctor(w, f, T) == storeFunctor([w EXCEPT !.fn[f] = DefaultFunction], f, T)

\* storable_function(ReturnType (*)(Args...)), lines 108-115
FromFunction(w, f) ==
    [w EXCEPT !.fn[f] = [DefaultFunction EXCEPT !.m_function = "free", !.m_vtable = "free"]]

\* the copy constructor, lines 138-142
CopyConstructed(w, f, other) ==
    vtable_copy([w EXCEPT !.fn[f] = [DefaultFunction EXCEPT !.m_vtable = w.fn[other].m_vtable]],
                other, f)

\* the move constructor, lines 145-149
MoveConstructed(w, f, other) ==
    vtable_move([w EXCEPT !.fn[f] = [DefaultFunction EXCEPT !.m_vtable = w.fn[other].m_vtable]],
                other, f)

\* the test of both assignment operators, lines 154 and 169
NotSelf(f, rhs) == rhs # f

\* what both assignment operators do before the copy or move, lines 157-159 and 172-174
Released(w, f, rhs) ==
    LET destroyed == vtable_destroy(w, f)
    IN [destroyed EXCEPT !.fn[f].m_function = "nullptr",
                         !.fn[f].m_vtable = w.fn[rhs].m_vtable]

\* operator=(const storable_function&), lines 152-164
CopyAssigned(w, f, rhs) ==
    IF NotSelf(f, rhs) THEN vtable_copy(Released(w, f, rhs), rhs, f) ELSE w

\* operator=(storable_function&&), lines 167-179
MoveAssigned(w, f, rhs) ==
    IF NotSelf(f, rhs) THEN vtable_move(Released(w, f, rhs), rhs, f) ELSE w

\* ~storable_function, lines 182-185; the storage goes with the object, and a
\* functor still alive in it is never destroyed
Destroyed(w, f) ==
    LET destroyed == vtable_destroy(w, f)
    IN [destroyed EXCEPT !.lifetime.leaked = @ \/ destroyed.fn[f].m_storage.object # "none",
                         !.fn[f] = NoFunction]

\* swap(f, g), lines 210-215; this->swap(f), lines 202-207, is swap(f, *this)
Swapped(w, f, g) ==
    LET tmp == MoveConstructed(w, TmpFn, f)
        first == MoveAssigned(tmp, f, g)
        second == MoveAssigned(first, g, TmpFn)
    IN Destroyed(second, TmpFn)

World == [fn |-> fn, lifetime |-> lifetime]

Becomes(w) ==
    /\ fn' = w.fn
    /\ lifetime' = w.lifetime
    /\ UNCHANGED <<flVars, event, shmVars, conv>>

FnDefault(f) == ~fn[f].exists /\ Becomes([World EXCEPT !.fn[f] = DefaultFunction])

FnFromFunctor(f, T) == ~fn[f].exists /\ Becomes(FromFunctor(World, f, T))

FnFromFunction(f) == ~fn[f].exists /\ Becomes(FromFunction(World, f))

FnCopyConstruct(f, other) ==
    ~fn[f].exists /\ fn[other].exists /\ Becomes(CopyConstructed(World, f, other))

FnMoveConstruct(f, other) ==
    ~fn[f].exists /\ fn[other].exists /\ Becomes(MoveConstructed(World, f, other))

FnCopyAssign(f, rhs) == fn[f].exists /\ fn[rhs].exists /\ Becomes(CopyAssigned(World, f, rhs))

FnMoveAssign(f, rhs) == fn[f].exists /\ fn[rhs].exists /\ Becomes(MoveAssigned(World, f, rhs))

FnSwap(f, g) == fn[f].exists /\ fn[g].exists /\ Becomes(Swapped(World, f, g))

FnDestructor(f) == fn[f].exists /\ Becomes(Destroyed(World, f))

NextFunction ==
    \/ \E f \in FnSlots : FnDefault(f)
    \/ \E f \in FnSlots, T \in FunctorTypes : FnFromFunctor(f, T)
    \/ \E f \in FnSlots : FnFromFunction(f)
    \/ \E f \in FnSlots, other \in FnSlots : FnCopyConstruct(f, other)
    \/ \E f \in FnSlots, other \in FnSlots : FnMoveConstruct(f, other)
    \/ \E f \in FnSlots, rhs \in FnSlots : FnCopyAssign(f, rhs)
    \/ \E f \in FnSlots, rhs \in FnSlots : FnMoveAssign(f, rhs)
    \/ \E f \in FnSlots, g \in FnSlots : FnSwap(f, g)
    \/ \E f \in FnSlots : FnDestructor(f)

SpecFunction == Init /\ [][NextFunction]_vars

\* Several processes, each with one FileLock, contend for the lock files: every
\* system call of one interleaves with the calls of the others.
Next ==
    \/ \E p \in Procs, d \in DirInputs, n \in NameInputs : CreateOpen(p, 1, d, n)
    \/ \E p \in Procs : CreateLock(p)
    \/ \E p \in Procs : CreateClose(p)
    \/ \E p \in Procs : Destructor(p, 1)
    \/ \E p \in Procs : RelClose(p)
    \/ \E p \in Procs : RelRemove(p)
    \/ \E p \in Procs : Crash(p)

Spec == Init /\ [][Next]_vars

\* One process that owns several FileLock objects, creates, moves and destroys them.
NextMove ==
    \/ \E s \in Slots, d \in DirInputs, n \in NameInputs : CreateOpen(1, s, d, n)
    \/ CreateLock(1)
    \/ CreateClose(1)
    \/ \E s \in Slots : Destructor(1, s)
    \/ \E s \in Slots, rhs \in Slots \cup {NullRef} : MoveAssign(1, s, rhs)
    \/ \E s \in Slots, rhs \in Slots \cup {NullRef} : MoveConstruct(1, s, rhs)
    \/ RelClose(1)
    \/ RelRemove(1)

SpecMove == Init /\ [][NextMove]_vars


(***************************************************************************)
(* Properties of FileLock                                                  *)
(***************************************************************************)
Valid(p, s) == obj[p][s].live /\ obj[p][s].m_fd # INVALID_FD

Releasing(p, s) == pc[p] \in {"rel_close", "rel_remove"} /\ ctx[p].slot = s

\* process p holds a valid FileLock for path pa and has not begun to release it
Holds(p, pa) ==
    \E s \in Slots :
        Valid(p, s) /\ obj[p][s].m_fileLockPath = pa /\ ~Releasing(p, s)

\* an error of the environment: injected, or a table of the system is full
EnvironmentErrnos == InjectedErrnos \cup ExhaustedErrnos

\* C1: under every interleaving of create (open, then flock) and release
\* (unlock, close, remove) at most one process holds a valid FileLock for a path.
C1_MutualExclusion ==
    \A pa \in Paths : Cardinality({p \in Procs : Holds(p, pa)}) <= 1

\* C2: while a FileLock for a path is held and not released, every create() for
\* that path from another instance returns LOCKED_BY_OTHER_PROCESS (first
\* conjunct, create() ending without an error of the environment); once no
\* unreleased FileLock for the path is left, create() does not report contention
\* (second conjunct).
C2_SecondCreateIsRefused ==
    /\ [][\A q \in Procs :
            (/\ pc[q] \in {"create_lock", "create_close"}
             /\ pc'[q] = "idle"
             /\ event'.op = "create"
             /\ ctx[q].lockErrno \notin EnvironmentErrnos
             /\ \E p \in Procs : \E s \in Slots :
                    /\ <<p, s>> # <<q, ctx[q].slot>>
                    /\ Valid(p, s)
                    /\ ~Releasing(p, s)
                    /\ obj[p][s].m_fileLockPath = ctx[q].path)
            => event'.result = "LOCKED_BY_OTHER_PROCESS"]_vars
    /\ [][\A q \in Procs :
            (/\ pc[q] = "create_lock"
             /\ pc'[q] \in {"idle", "create_close"}
             /\ event'.errno \notin EnvironmentErrnos
             /\ ~\E p \in Procs : \E s \in Slots :
                    Valid(p, s) /\ obj[p][s].m_fileLockPath = ctx[q].path)
            => event'.result = "OK"]_vars

\* C3: a process that terminates abnormally strands nothing: no lock and no
\* descriptor stays with it, and a create() by another process fails only on an
\* error of the environment or while a FileLock of a running process for that
\* path is not yet released; otherwise it succeeds, whether or not the lock
\* file was left on disk.
C3_CrashStrandsNothing ==
    /\ [](\A p \in Procs : pc[p] = "crashed" =>
            /\ OpenFds(p) = {}
            /\ \A i \in Inodes : lockOwner[i][1] # p)
    /\ [][\A q \in Procs :
            (/\ pc[q] = "idle" /\ event'.op = "create" /\ event'.p = q
             /\ event'.call = "open" /\ event' # event)
            => \/ event'.errno \in EnvironmentErrnos
               \/ event'.errno = "OK" /\ pc'[q] = "create_lock"]_vars
    /\ [][\A q \in Procs :
            (/\ pc[q] = "create_lock"
             /\ pc'[q] \in {"idle", "create_close"}
             /\ event'.errno \notin EnvironmentErrnos
             /\ ~\E p \in Procs : \E s \in Slots :
                    Valid(p, s) /\ obj[p][s].m_fileLockPath = ctx[q].path)
            => /\ event'.result = "OK"
               /\ obj'[q][ctx[q].slot] =
                    [live |-> TRUE, m_fd |-> ctx[q].fd, m_fileLockPath |-> ctx[q].path]
               /\ lockOwner'[fdtab[q][ctx[q].fd]] = <<q, ctx[q].fd>>]_vars

\* a process crashed while it held the lock of a path, its lock file stayed, and
\* the create() of another process for that path has just succeeded
C3_Witness ==
    \E p \in Procs, q \in Procs :
        /\ pc[p] = "crashed"
        /\ event.op = "create" /\ event.p = q /\ event.result = "OK" /\ q # p
        /\ \E a \in acq[p] : a[2] = obj[q][event.slot].m_fileLockPath

\* the FileLock objects of p that are valid and not being released
HeldSlots(p) == {s \in Slots : Valid(p, s) /\ ~Releasing(p, s)}

\* p has this step finished a move (assignment or construction) out of a valid source
MovedFromValid(p) ==
    /\ event'.p = p
    /\ event'.op \in {"move", "construct"}
    /\ event'.result \in {"OK", "INTERNAL_LOGIC_ERROR"}
    /\ pc[p] \in {"idle", "rel_remove"}
    /\ pc'[p] = "idle"
    /\ Valid(p, event'.rhs)

\* C4: a move out of a valid FileLock leaves the source with the sentinel
\* descriptor and an empty path and gives the destination the descriptor and
\* path; destroying an invalidated object makes no system call, destroying a
\* valid one unlocks, closes and removes its own descriptor and path; and every
\* descriptor create() handed out belongs to exactly one object until the one
\* release that takes it.
C4_MoveTransfersOnce ==
    /\ [](\A p \in Procs : pc[p] # "crashed" =>
            /\ acq[p] = {<<obj[p][s].m_fd, obj[p][s].m_fileLockPath>> : s \in HeldSlots(p)}
            /\ Cardinality(acq[p]) = Cardinality(HeldSlots(p))
            /\ (pc[p] = "idle" => OpenFds(p) = {obj[p][s].m_fd : s \in HeldSlots(p)})
            /\ \A s \in Slots :
                    (obj[p][s].live /\ ~Valid(p, s)) => obj[p][s].m_fileLockPath = EmptyPath)
    /\ [][\A p \in Procs : MovedFromValid(p) =>
            /\ obj'[p][event'.rhs] = DefaultFileLock
            /\ obj'[p][event'.slot] = obj[p][event'.rhs]]_vars
    /\ [][\A p \in Procs :
            (/\ event'.op = "dtor" /\ event'.p = p /\ pc[p] = "idle"
             /\ obj[p][event'.slot].live /\ ~Valid(p, event'.slot))
            => /\ event'.call = "none"
               /\ event'.result = "OK"
               /\ pc'[p] = "idle"
               /\ UNCHANGED <<files, lockOwner, fdtab>>]_vars
    /\ [][\A p \in Procs :
            (pc[p] = "rel_remove" /\ ctx[p].cont = "dtor" /\ pc'[p] = "idle")
            => LET s == ctx[p].slot
               IN /\ event'.call = "remove"
                  /\ fdtab'[p][obj[p][s].m_fd] = NoInode
                  /\ \A i \in Inodes : lockOwner'[i] # <<p, obj[p][s].m_fd>>
                  /\ (event'.errno = "OK" => files'[obj[p][s].m_fileLockPath] = NoInode)
                  /\ ~obj'[p][s].live]_vars

\* a valid FileLock has just been moved: the destination holds the descriptor
\* create() handed out, the source is invalidated
C4_Witness ==
    /\ event.op \in {"move", "construct"}
    /\ event.result = "OK"
    /\ event.rhs # NullRef
    /\ Valid(event.p, event.slot)
    /\ obj[event.p][event.rhs] = DefaultFileLock
    /\ acq[event.p] = {<<obj[event.p][event.slot].m_fd, obj[event.p][event.slot].m_fileLockPath>>}

\* C5: move-assigning a valid B into a different valid A runs unlock, close and
\* remove on A's descriptor and path while A and B are still as they were, and
\* only the step after the remove gives A the descriptor and path of B and
\* invalidates B, whether or not a step of the release failed.
C5_ReleaseThenTransfer ==
    /\ [][\A p \in Procs :
            (pc'[p] \in {"rel_close", "rel_remove"} /\ ctx'[p].cont = "move")
            => obj'[p] = obj[p]]_vars
    /\ [][\A p \in Procs :
            (/\ pc[p] = "idle" /\ pc'[p] = "rel_close" /\ ctx'[p].cont = "move")
            => /\ event'.call = "unlock"
               /\ Valid(p, ctx'[p].slot)
               /\ event'.errno = "OK" =>
                    \A i \in Inodes : lockOwner'[i] # <<p, obj[p][ctx'[p].slot].m_fd>>]_vars
    /\ [][\A p \in Procs :
            (pc[p] = "rel_close" /\ pc'[p] = "rel_remove" /\ ctx[p].cont = "move")
            => /\ event'.call = "close"
               /\ fdtab'[p][obj[p][ctx[p].slot].m_fd] = NoInode]_vars
    /\ [][\A p \in Procs :
            (pc[p] = "rel_remove" /\ pc'[p] = "idle" /\ ctx[p].cont = "move")
            => LET s == ctx[p].slot
                   rhs == ctx[p].rhs
               IN /\ event'.call = "remove"
                  /\ (event'.errno = "OK" => files'[obj[p][s].m_fileLockPath] = NoInode)
                  /\ obj'[p][s] = obj[p][rhs]
                  /\ obj'[p][rhs] = DefaultFileLock]_vars

\* B has been moved into a valid A although the release of A's lock failed
C5_Witness ==
    /\ event.op = "move"
    /\ event.call = "remove"
    /\ event.result = "INTERNAL_LOGIC_ERROR"
    /\ Valid(event.p, event.slot)
    /\ obj[event.p][event.rhs] = DefaultFileLock

\* C6: releasing a valid FileLock goes through unlock, close and remove in this
\* order whatever an earlier step returned, and reports INTERNAL_LOGIC_ERROR
\* exactly when one of the three failed; releasing an invalidated FileLock
\* makes no call and reports success.
C6_BestEffortCleanup ==
    /\ [][\A p \in Procs :
            (pc[p] = "idle" /\ pc'[p] = "rel_close")
            => /\ event'.call = "unlock"
               /\ event'.result = "pending"
               /\ ctx'[p].cleanupFailed = (event'.errno # "OK")]_vars
    /\ [][\A p \in Procs :
            (pc[p] = "rel_close" /\ pc'[p] \notin {"rel_close", "crashed"})
            => /\ pc'[p] = "rel_remove"
               /\ event'.call = "close"
               /\ event'.result = "pending"
               /\ ctx'[p].cleanupFailed = (ctx[p].cleanupFailed \/ event'.errno # "OK")]_vars
    /\ [][\A p \in Procs :
            (pc[p] = "rel_remove" /\ pc'[p] \notin {"rel_remove", "crashed"})
            => /\ pc'[p] = "idle"
               /\ event'.call = "remove"
               /\ event'.result =
                    IF ctx[p].cleanupFailed \/ event'.errno # "OK"
                    THEN "INTERNAL_LOGIC_ERROR" ELSE "OK"]_vars
    /\ [][\A p \in Procs :
            (/\ event'.op \in {"dtor", "move"} /\ event'.p = p /\ pc[p] = "idle"
             /\ event'.result \notin {"ignored", "terminated"}
             /\ obj[p][event'.slot].live)
            => IF Valid(p, event'.slot)
               THEN pc'[p] = "rel_close"
               ELSE event'.call = "none" /\ event'.result = "OK" /\ pc'[p] = "idle"]_vars

\* the unlock or the close failed, the remove was made all the same and
\* succeeded, and the release reported INTERNAL_LOGIC_ERROR
C6_Witness ==
    /\ event.op = "dtor"
    /\ event.call = "remove"
    /\ event.errno = "OK"
    /\ event.result = "INTERNAL_LOGIC_ERROR"

\* C7: when flock fails in create(), the descriptor is closed before create()
\* returns, the error returned is the translation of the flock errno
\* (LOCKED_BY_OTHER_PROCESS for EWOULDBLOCK) whatever close returned, no file is
\* removed and no lock of another open file description changes.
C7_FailedLockClosesDescriptor ==
    /\ [][\A p \in Procs :
            (pc[p] = "create_lock" /\ pc'[p] = "create_close")
            => /\ event'.call = "flock"
               /\ event'.result = "pending"
               /\ ctx'[p].lockErrno = event'.errno
               /\ UNCHANGED <<files, lockOwner, fdtab, obj>>]_vars
    /\ [][\A p \in Procs :
            (pc[p] = "create_close" /\ pc'[p] \notin {"create_close", "crashed"})
            => /\ pc'[p] = "idle"
               /\ event'.call = "close"
               /\ event'.result = convertErrnoToFileLockError(ctx[p].lockErrno)
               /\ event'.result # "OK"
               /\ (ctx[p].lockErrno = "EWOULDBLOCK"
                    => event'.result = "LOCKED_BY_OTHER_PROCESS")
               /\ fdtab'[p][ctx[p].fd] = NoInode
               /\ files' = files
               /\ obj' = obj
               /\ \A i \in Inodes :
                    lockOwner[i] # <<p, ctx[p].fd>> => lockOwner'[i] = lockOwner[i]]_vars

\* create() has returned LOCKED_BY_OTHER_PROCESS although its close failed, and
\* the holder still has its lock on the file
C7_Witness ==
    /\ event.op = "create"
    /\ event.call = "close"
    /\ event.errno = "EIO"
    /\ event.result = "LOCKED_BY_OTHER_PROCESS"
    /\ \E q \in Procs : \E s \in Slots :
          /\ Valid(q, s)
          /\ files[obj[q][s].m_fileLockPath] # NoInode
          /\ lockOwner[files[obj[q][s].m_fileLockPath]] = <<q, obj[q][s].m_fd>>

\* C8: a self-move-assignment changes nothing and makes no system call.
C8_SelfMoveIgnored ==
    [][(event'.op = "move" /\ event'.slot = event'.rhs)
        => /\ event'.call = "none"
           /\ event'.result = "ignored"
           /\ UNCHANGED flVars]_vars

\* a valid FileLock has just been move-assigned to itself
C8_Witness ==
    /\ event.op = "move"
    /\ event.slot = event.rhs
    /\ Valid(event.p, event.slot)
    /\ lockOwner[fdtab[event.p][obj[event.p][event.slot].m_fd]]
         = <<event.p, obj[event.p][event.slot].m_fd>>

\* p begins or goes on with a move-assignment from an invalidated source into a
\* valid target
MoveFromInvalid(p, s, rhs) ==
    /\ rhs # NullRef
    /\ rhs # s
    /\ obj[p][s].live
    /\ obj[p][rhs] = DefaultFileLock

\* C9 as claimed: move-assigning from an invalidated source into a valid
\* FileLock is ignored, the target keeps descriptor, path and lock and no
\* unlock, close or remove is made.
C9_InvalidSourceIgnored ==
    [][\A p \in Procs :
        (/\ event'.op = "move" /\ event'.p = p /\ pc[p] = "idle"
         /\ MoveFromInvalid(p, event'.slot, event'.rhs)
         /\ Valid(p, event'.slot))
        => /\ event'.call = "none"
           /\ UNCHANGED flVars]_vars

\* C9 amended: move-assigning from an invalidated source into a valid FileLock
\* is not ignored: it releases the target's lock with unlock, close and remove
\* on the target's descriptor and path, and leaves the target invalidated
\* (sentinel descriptor, empty path) like the source.
C9_InvalidSourceReleasesTarget ==
    /\ [][\A p \in Procs :
            (/\ event'.op = "move" /\ event'.p = p /\ pc[p] = "idle"
             /\ MoveFromInvalid(p, event'.slot, event'.rhs)
             /\ Valid(p, event'.slot))
            => /\ event'.call = "unlock"
               /\ pc'[p] = "rel_close"
               /\ ctx'[p].slot = event'.slot
               /\ ctx'[p].rhs = event'.rhs
               /\ ctx'[p].cont = "move"]_vars
    /\ [][\A p \in Procs :
            (/\ pc[p] = "rel_close" /\ pc'[p] = "rel_remove" /\ ctx[p].cont = "move"
             /\ MoveFromInvalid(p, ctx[p].slot, ctx[p].rhs))
            => /\ event'.call = "close"
               /\ fdtab'[p][obj[p][ctx[p].slot].m_fd] = NoInode
               /\ \A i \in Inodes : lockOwner'[i] # <<p, obj[p][ctx[p].slot].m_fd>>]_vars
    /\ [][\A p \in Procs :
            (/\ pc[p] = "rel_remove" /\ pc'[p] = "idle" /\ ctx[p].cont = "move"
             /\ MoveFromInvalid(p, ctx[p].slot, ctx[p].rhs))
            => /\ event'.call = "remove"
               /\ (event'.errno = "OK" => files'[obj[p][ctx[p].slot].m_fileLockPath] = NoInode)
               /\ obj'[p][ctx[p].slot] = DefaultFileLock
               /\ obj'[p][ctx[p].rhs] = DefaultFileLock]_vars

\* a valid target has been released and invalidated by a move-assignment from
\* an invalidated source
C9_Witness ==
    /\ event.op = "move"
    /\ event.call = "remove"
    /\ event.errno = "OK"
    /\ event.result = "OK"
    /\ obj[event.p][event.slot] = DefaultFileLock
    /\ obj[event.p][event.rhs] = DefaultFileLock
    /\ OpenFds(event.p) = {}

(***************************************************************************)
(* Properties of SharedMemoryObject                                        *)
(***************************************************************************)
\* C10: allocate(0, alignment) fails with REQUESTED_ZERO_SIZED_MEMORY in every
\* state of the object and leaves the allocator and the finalized flag alone.
C10_ZeroSizeAlwaysRefused ==
    [][(event'.op = "allocate" /\ event'.size = 0)
        => /\ event'.result = "REQUESTED_ZERO_SIZED_MEMORY"
           /\ shm' = shm]_vars

\* allocate(0, alignment) was refused on a finalized object whose memory is used up
C10_Witness ==
    /\ event.op = "allocate" /\ event.size = 0
    /\ event.result = "REQUESTED_ZERO_SIZED_MEMORY"
    /\ shm.m_allocationFinalized
    /\ shm.m_currentPosition = shm.m_length

\* C11 as claimed: after finalizeAllocation() every allocate call, whatever its
\* size and alignment, fails with REQUESTED_MEMORY_AFTER_FINALIZED_ALLOCATION
\* and leaves the allocator and the regions returned before as they were.
C11_FinalizedRefusesEverySize ==
    [][(event'.op = "allocate" /\ shm.m_allocationFinalized)
        => /\ event'.result = "REQUESTED_MEMORY_AFTER_FINALIZED_ALLOCATION"
           /\ shm' = shm
           /\ allocs' = allocs]_vars

\* C11 amended: finalizeAllocation() sets the flag for good; from then on every
\* allocate call with size > 0 fails with
\* REQUESTED_MEMORY_AFTER_FINALIZED_ALLOCATION, a call with size 0 fails with
\* REQUESTED_ZERO_SIZED_MEMORY, and either leaves the allocator offset and the
\* regions returned before as they were.
C11_FinalizedRefusesPositiveSize ==
    /\ [][event'.op = "finalizeAllocation" => shm'.m_allocationFinalized]_vars
    /\ [][shm.m_allocationFinalized => shm'.m_allocationFinalized]_vars
    /\ [][(event'.op = "allocate" /\ shm.m_allocationFinalized)
            => /\ event'.result =
                    IF event'.size > 0
                    THEN "REQUESTED_MEMORY_AFTER_FINALIZED_ALLOCATION"
                    ELSE "REQUESTED_ZERO_SIZED_MEMORY"
               /\ event'.ptr = NoAddress
               /\ shm' = shm
               /\ allocs' = allocs]_vars

\* an allocate that the memory left would have served was refused because the
\* object is finalized, with regions handed out before
C11_Witness ==
    /\ event.op = "allocate"
    /\ event.size > 0
    /\ event.result = "REQUESTED_MEMORY_AFTER_FINALIZED_ALLOCATION"
    /\ Len(allocs) > 0
    /\ shm.m_currentPosition + event.size <= shm.m_memorySizeInBytes

\* C12: the regions returned by successful allocate calls are ordered and
\* pairwise disjoint, lie inside [base, base + sizeInBytes), start on a multiple
\* of the alignment asked for, and the allocator offset never decreases.
C12_RegionsDisjointAlignedInRange ==
    /\ [](\A j \in 1 .. Len(allocs) :
            /\ allocs[j].size > 0
            /\ allocs[j].ptr % allocs[j].alignment = 0
            /\ allocs[j].ptr >= shm.m_startAddress
            /\ allocs[j].ptr + allocs[j].size <= shm.m_startAddress + shm.m_memorySizeInBytes
            /\ allocs[j].ptr + allocs[j].size <= shm.m_startAddress + shm.m_currentPosition
            /\ \A i \in 1 .. j - 1 : allocs[j].ptr >= allocs[i].ptr + allocs[i].size)
    /\ [][shm'.m_currentPosition >= shm.m_currentPosition]_vars
    /\ [][(event'.op = "allocate" /\ event'.result = "OK")
            => /\ allocs' = Append(allocs, [ptr |-> event'.ptr, size |-> event'.size,
                                             alignment |-> event'.alignment])
               /\ event'.ptr >= shm.m_startAddress + shm.m_currentPosition]_vars

\* two regions were returned with alignment padding between them, the second
\* ending at the end of the mapping
C12_Witness ==
    /\ Len(allocs) >= 2
    /\ allocs[2].ptr > allocs[1].ptr + allocs[1].size
    /\ allocs[Len(allocs)].ptr + allocs[Len(allocs)].size
         = shm.m_startAddress + shm.m_memorySizeInBytes

\* the sizes of the regions handed out so far, added up
RECURSIVE TotalSize(_)
TotalSize(regions) ==
    IF regions = <<>> THEN 0 ELSE Head(regions).size + TotalSize(Tail(regions))

\* a request fits when its aligned start plus its size stays inside the mapping
FitsInMapping(a, size, alignment) ==
    LET start == a.m_startAddress + a.m_currentPosition
        aligned == CHOOSE x \in start .. start + alignment - 1 : x % alignment = 0
    IN aligned + size <= a.m_startAddress + a.m_memorySizeInBytes

\* C13: on a non-finalized object an allocate with size > 0 that does not fit
\* behind the alignment padding returns NOT_ENOUGH_MEMORY and leaves the offset
\* and the regions returned before as they were; the regions handed out never
\* add up to more than sizeInBytes, so the call that would take the total over
\* sizeInBytes is refused with NOT_ENOUGH_MEMORY.
C13_NoFitIsNotEnoughMemory ==
    /\ [](TotalSize(allocs) <= shm.m_memorySizeInBytes)
    /\ [][(/\ event'.op = "allocate" /\ event'.size > 0
           /\ ~shm.m_allocationFinalized
           /\ \/ ~FitsInMapping(shm, event'.size, event'.alignment)
              \/ TotalSize(allocs) + event'.size > shm.m_memorySizeInBytes)
            => /\ event'.result = "NOT_ENOUGH_MEMORY"
               /\ event'.ptr = NoAddress
               /\ shm' = shm
               /\ allocs' = allocs]_vars

\* a request smaller than the bytes left was refused because of its alignment
\* padding, after regions had been handed out
C13_Witness ==
    /\ event.op = "allocate"
    /\ event.result = "NOT_ENOUGH_MEMORY"
    /\ Len(allocs) > 0
    /\ event.size > 0
    /\ shm.m_currentPosition + event.size <= shm.m_memorySizeInBytes

(***************************************************************************)
(* Properties of SharedMemoryObjectBuilder::create                         *)
(***************************************************************************)
\* the create() calls that have returned a SharedMemoryObject for a name
Objects(name) ==
    {c \in Callers : thr[c].result = "OK" /\ thr[c].cfg.name = name}

\* c has this step come back from building its SharedMemory
OpenedSharedMemory(c) == thr[c].pc = "idle" /\ thr'[c].pc # "idle"

\* C14: of the objects create() returns for one name at most one reports
\* hasOwnership() = TRUE; a call that does not own has opened the segment that
\* was there and left it as it was, a call that owns has made it.
C14_AtMostOneOwner ==
    /\ [](\A name \in ShmNames :
            Cardinality({c \in Objects(name) : hasOwnership(thr[c])}) <= 1)
    /\ [][\A c \in Callers :
            (OpenedSharedMemory(c) /\ thr'[c].pc = "map")
            => LET name == thr'[c].cfg.name
               IN IF thr'[c].ownership
                  THEN /\ ~seg[name].exists
                       /\ seg'[name].exists
                       /\ \A d \in Callers \ {c} :
                            thr[d].cfg.name = name => ~thr[d].ownership
                  ELSE /\ seg[name].exists
                       /\ seg' = seg]_vars

\* two processes raced with OPEN_OR_CREATE on one name: one owns the segment
\* and is still zero-filling it, the other has attached and returned
C14_Witness ==
    \E c \in Callers, d \in Callers :
        /\ c[1] # d[1]
        /\ thr[c].cfg.name = thr[d].cfg.name
        /\ thr[c].cfg.openMode = "OPEN_OR_CREATE"
        /\ thr[d].cfg.openMode = "OPEN_OR_CREATE"
        /\ thr[c].ownership /\ thr[c].pc = "memset"
        /\ d \in Objects(thr[d].cfg.name) /\ ~hasOwnership(thr[d])

\* C15: an EXCLUSIVE_CREATE on a name whose segment exists fails with
\* SHARED_MEMORY_CREATION_FAILED and touches neither the segment nor any other
\* call or object; on a free name it fails only on an error of the
\* environment and otherwise owns the segment it made, of the size asked for.
C15_ExclusiveCreateTwice ==
    /\ [][\A c \in Callers :
            (OpenedSharedMemory(c) /\ thr'[c].cfg.openMode = "EXCLUSIVE_CREATE")
            => LET name == thr'[c].cfg.name
               IN IF seg[name].exists
                  THEN /\ thr'[c].pc = "returned"
                       /\ thr'[c].result = "SHARED_MEMORY_CREATION_FAILED"
                       /\ seg' = seg
                       /\ proc' = proc
                       /\ \A d \in Callers \ {c} : thr'[d] = thr[d]
                  ELSE \/ /\ thr'[c].pc = "returned"
                          /\ thr'[c].result = "SHARED_MEMORY_CREATION_FAILED"
                          /\ thr'[c].errno \in InjectedShmErrnos
                       \/ /\ thr'[c].pc = "map"
                          /\ thr'[c].ownership
                          /\ seg'[name].exists
                          /\ seg'[name].size = thr'[c].cfg.sizeInBytes]_vars
    /\ [](\A c \in Callers :
            (thr[c].result = "OK" /\ thr[c].cfg.openMode = "EXCLUSIVE_CREATE")
            => hasOwnership(thr[c]))

\* a first EXCLUSIVE_CREATE returned an owning object, a second one on the same
\* name was refused because the name exists
C15_Witness ==
    \E c \in Callers, d \in Callers :
        /\ thr[c].cfg.openMode = "EXCLUSIVE_CREATE"
        /\ thr[c].result = "OK" /\ hasOwnership(thr[c])
        /\ thr[d].cfg.openMode = "EXCLUSIVE_CREATE"
        /\ thr[d].cfg.name = thr[c].cfg.name
        /\ thr[d].result = "SHARED_MEMORY_CREATION_FAILED"
        /\ thr[d].errno = "EEXIST"

\* C16: a create() that returns an object has zero-filled the segment exactly
\* when it owns it and the platform asks for zeros; the fill leaves every byte
\* of the sizeInBytes bytes of the segment zero; a call that does not own the
\* segment never writes to it, never installs the handler, never takes the mutex.
C16_ZeroFillIffOwner ==
    /\ [][\A c \in Callers :
            (thr[c].result # "OK" /\ thr'[c].result = "OK")
            => thr'[c].wrote = (thr'[c].ownership /\ writeZeros)]_vars
    /\ [][\A c \in Callers :
            (thr[c].pc = "memset" /\ thr'[c].pc = "restore")
            => LET name == thr[c].cfg.name
               IN /\ seg'[name].size = thr[c].cfg.sizeInBytes
                  /\ \A b \in 1 .. seg'[name].size : seg'[name].cells[b] = 0]_vars
    /\ [](\A c \in Callers :
            ~thr[c].ownership
            => /\ ~thr[c].wrote /\ ~thr[c].installed /\ ~thr[c].tookMutex
               /\ proc[c[1]].mutex # c
               /\ thr[c].pc \in {"idle", "map", "returned"})
    /\ [][\A c \in Callers :
            (thr'[c] # thr[c] /\ ~thr'[c].ownership)
            => seg' = seg /\ proc' = proc]_vars

\* the owner has zero-filled and returned; the process that attached returned
\* without filling and wrote into the segment
C16_Witness ==
    \E c \in Callers, d \in Callers :
        /\ thr[c].result = "OK" /\ thr[c].ownership /\ thr[c].wrote
        /\ thr[d].result = "OK" /\ ~thr[d].ownership /\ ~thr[d].wrote
        /\ thr[d].cfg.name = thr[c].cfg.name
        /\ seg[thr[c].cfg.name].cells[1] = 1

\* the threads of process p inside the window of lines 123-149
InWindow(p) ==
    {c \in Callers : c[1] = p
                     /\ thr[c].pc \in {"register", "format", "memset", "restore", "unlock"}}

\* C17: at most one thread of a process is between taking sigbusHandlerMutex
\* and releasing it; sigbusErrorMessage and the SIGBUS disposition of a live
\* process change only in a step of the thread that holds the mutex, with no
\* other thread in the window.
C17_OneThreadInWindow ==
    /\ [](\A p \in Procs :
            /\ Cardinality(InWindow(p)) <= 1
            /\ \A c \in InWindow(p) : proc[p].mutex = c)
    /\ [][\A p \in Procs :
            (/\ proc'[p].alive
             /\ \/ proc'[p].sigbusErrorMessage # proc[p].sigbusErrorMessage
                \/ proc'[p].handler # proc[p].handler)
            => \E c \in Callers :
                /\ c[1] = p
                /\ proc[p].mutex = c
                /\ thr'[c] # thr[c]
                /\ InWindow(p) = {c}]_vars

\* one thread is zero-filling its segment while another thread of the process,
\* owner of another segment, waits for the mutex
C17_Witness ==
    \E c \in Callers, d \in Callers :
        /\ c[1] = d[1] /\ c # d
        /\ thr[c].pc = "memset"
        /\ thr[d].pc = "lock" /\ thr[d].ownership
        /\ proc[c[1]].alive

\* C18: at every moment the temporary handler is installed in a live process,
\* sigbusErrorMessage holds the message of the creation in progress.
C18_MessageBeforeHandler ==
    \A p \in Procs :
        (proc[p].alive /\ proc[p].handler = "memsetSigbusHandler")
        => \E c \in InWindow(p) : proc[p].sigbusErrorMessage = Format(thr[c].cfg)

\* C19: the step after the fill puts back the disposition found at
\* installation while the mutex is still held; whenever the mutex of a live
\* process is free, and so once all its create() calls have returned, its
\* SIGBUS disposition is the one it had before them.
C19_HandlerRestored ==
    /\ [][\A c \in Callers :
            (thr[c].pc = "memset" /\ thr'[c].pc # "memset")
            => /\ thr'[c].pc = "restore"
               /\ proc'[c[1]].handler = "memsetSigbusHandler"
               /\ proc'[c[1]].mutex = c]_vars
    /\ [][\A c \in Callers :
            (thr[c].pc = "restore" /\ thr'[c].pc # "restore")
            => /\ thr'[c].pc = "unlock"
               /\ proc'[c[1]].handler = thr[c].previous
               /\ proc'[c[1]].handler = proc[c[1]].initial
               /\ proc'[c[1]].mutex = c]_vars
    /\ [](\A p \in Procs :
            (proc[p].alive /\ proc[p].mutex = NoCaller)
            => proc[p].handler = proc[p].initial)

\* two threads of a process whose SIGBUS was ignored have both installed the
\* handler, filled and returned, and SIGBUS is ignored again
C19_Witness ==
    \E c \in Callers, d \in Callers :
        /\ c[1] = d[1] /\ c # d
        /\ thr[c].result = "OK" /\ thr[c].installed
        /\ thr[d].result = "OK" /\ thr[d].installed
        /\ proc[c[1]].alive
        /\ proc[c[1]].initial = "SIG_IGN"
        /\ proc[c[1]].handler = "SIG_IGN"

\* C20: when a process takes SIGBUS while a thread of it is zero-filling, the
\* message of that creation is what reaches the error stream, the process
\* ends in the same step without touching sigbusErrorMessage or the mutex, and
\* no thread of an ended process ever moves again: create() does not return.
C20_SigbusEndsProcess ==
    /\ [][\A c \in Callers :
            (thr[c].pc = "memset" /\ proc[c[1]].alive /\ ~proc'[c[1]].alive)
            => /\ proc'[c[1]].stderr = Format(thr[c].cfg)
               /\ proc'[c[1]].sigbusErrorMessage = proc[c[1]].sigbusErrorMessage
               /\ proc'[c[1]].mutex = proc[c[1]].mutex
               /\ proc'[c[1]].handler = proc[c[1]].handler
               /\ thr'[c].pc = "memset"
               /\ thr'[c].result = "none"]_vars
    /\ [][\A c \in Callers :
            ~proc[c[1]].alive
            => /\ thr'[c] = thr[c]
               /\ proc'[c[1]] = proc[c[1]]]_vars

\* SIGBUS ended the process during a fill: the error stream got the message of
\* that creation, not the one an earlier creation of another thread had left
C20_Witness ==
    \E c \in Callers, d \in Callers :
        /\ c[1] = d[1] /\ c # d
        /\ ~proc[c[1]].alive
        /\ thr[c].pc = "memset" /\ thr[c].wrote
        /\ proc[c[1]].stderr = Format(thr[c].cfg)
        /\ thr[d].result = "OK" /\ thr[d].installed
        /\ Format(thr[d].cfg) # Format(thr[c].cfg)

\* the order of the steps of create(): from each position, the next ones
StepOrder ==
    {<<"idle", "map">>, <<"idle", "returned">>, <<"map", "lock">>, <<"map", "returned">>,
     <<"lock", "register">>, <<"register", "format">>, <<"register", "returned">>,
     <<"format", "memset">>, <<"memset", "restore">>, <<"restore", "unlock">>,
     <<"unlock", "returned">>}

\* C21: create() goes through its steps in order and a failed step is its
\* last: SHARED_MEMORY_CREATION_FAILED is returned from the first step with no
\* mapping tried, MAPPING_SHARED_MEMORY_FAILED from the second with no mutex,
\* handler or fill; an object is returned only by a call none of whose steps
\* failed and whose segment exists; a call that returned is over.
C21_StopsAtFirstFailure ==
    /\ [][\A c \in Callers :
            /\ thr'[c].pc # thr[c].pc => <<thr[c].pc, thr'[c].pc>> \in StepOrder
            /\ thr[c].pc = "returned" => thr'[c] = thr[c]
            /\ thr'[c].result # thr[c].result
               => /\ thr'[c].pc = "returned"
                  /\ thr[c].pc = CASE thr'[c].result = "SHARED_MEMORY_CREATION_FAILED" -> "idle"
                                   [] thr'[c].result = "MAPPING_SHARED_MEMORY_FAILED" -> "map"
                                   [] thr'[c].result = "INTERNAL_LOGIC_FAILURE" -> "register"
                                   [] OTHER -> IF ZeroFillNeeded(thr[c].ownership)
                                               THEN "unlock" ELSE "map"
                  /\ thr'[c].result \in {"SHARED_MEMORY_CREATION_FAILED",
                                         "MAPPING_SHARED_MEMORY_FAILED"}
                     => seg' = seg /\ proc' = proc]_vars
    /\ [](\A c \in Callers :
            /\ thr[c].errno # "OK" => thr[c].pc = "returned" /\ thr[c].result # "OK"
            /\ thr[c].result \in {"SHARED_MEMORY_CREATION_FAILED", "MAPPING_SHARED_MEMORY_FAILED"}
               => ~thr[c].tookMutex /\ ~thr[c].installed /\ ~thr[c].wrote
            /\ thr[c].result = "OK"
               => /\ seg[thr[c].cfg.name].exists
                  /\ thr[c].errno = "OK")

\* one call failed at the first step; another, owner of a segment that was to
\* be zero-filled, failed at the mapping
C21_Witness ==
    \E c \in Callers, d \in Callers :
        /\ thr[c].result = "SHARED_MEMORY_CREATION_FAILED"
        /\ thr[d].result = "MAPPING_SHARED_MEMORY_FAILED"
        /\ thr[d].ownership /\ writeZeros
        /\ thr[d].errno \in InjectedMapErrnos

(***************************************************************************)
(* Properties of convertErrnoToFileLockError                               *)
(***************************************************************************)
\* the closed enumeration the translation maps into
TranslatedErrors ==
    {"ACCESS_DENIED", "QUOTA_EXHAUSTED", "FILE_TOO_LARGE", "INVALID_FILE_NAME",
     "PROCESS_LIMIT", "SYSTEM_LIMIT", "NO_SUCH_DIRECTORY", "OUT_OF_MEMORY",
     "SYS_CALL_NOT_IMPLEMENTED", "SPECIAL_FILE", "FILE_IN_USE",
     "LOCKED_BY_OTHER_PROCESS", "I_O_ERROR", "INTERNAL_LOGIC_ERROR"}

\* the errnos that have a case of their own
ListedErrnos ==
    {"EACCES", "EDQUOT", "EFAULT", "EFBIG", "EOVERFLOW", "ELOOP", "EMFILE", "ENFILE",
     "ENODEV", "ENOENT", "ENOMEM", "ENOSPC", "ENOSYS", "ENXIO", "EPERM", "EROFS",
     "ETXTBSY", "EWOULDBLOCK", "ENOLCK", "EIO"}

Converted == conv.result # "none"

\* C22: every call of convertErrnoToFileLockError returns one error of the
\* closed enumeration, the same for the same errno whatever the path and the
\* calls before it: LOCKED_BY_OTHER_PROCESS for EWOULDBLOCK, ACCESS_DENIED for
\* EACCES, EFAULT, ENODEV and EPERM, QUOTA_EXHAUSTED for EDQUOT and ENOSPC,
\* PROCESS_LIMIT for EMFILE, SYSTEM_LIMIT for ENFILE and ENOLCK,
\* NO_SUCH_DIRECTORY for ENOENT, INTERNAL_LOGIC_ERROR for every errno without a
\* case, and for no errno with one.
C22_ErrnoTranslationTotal ==
    /\ [](Converted =>
            /\ conv.result \in TranslatedErrors
            /\ conv.errnum = "EWOULDBLOCK" <=> conv.result = "LOCKED_BY_OTHER_PROCESS"
            /\ conv.errnum \in {"EACCES", "EFAULT", "ENODEV", "EPERM"}
               <=> conv.result = "ACCESS_DENIED"
            /\ conv.errnum \in {"EDQUOT", "ENOSPC"} <=> conv.result = "QUOTA_EXHAUSTED"
            /\ conv.errnum = "EMFILE" <=> conv.result = "PROCESS_LIMIT"
            /\ conv.errnum \in {"ENFILE", "ENOLCK"} <=> conv.result = "SYSTEM_LIMIT"
            /\ conv.errnum = "ENOENT" <=> conv.result = "NO_SUCH_DIRECTORY"
            /\ conv.errnum \notin ListedErrnos <=> conv.result = "INTERNAL_LOGIC_ERROR")
    /\ [][(Converted /\ conv'.errnum = conv.errnum) => conv'.result = conv.result]_vars

\* an errno without a case, 0 here, was translated after the log had taken a
\* message of an earlier call
C22_Witness ==
    /\ Converted
    /\ conv.errnum = NoError
    /\ conv.result = "INTERNAL_LOGIC_ERROR"
    /\ Len(conv.log) = MaxLog

\* C23: a call for an errno other than EWOULDBLOCK adds exactly one message to
\* the log and the path it was given is streamed into that message; a call
\* for EWOULDBLOCK adds nothing.
C23_LogsOnceNamingPath ==
    [][conv' # conv
       => IF conv'.errnum = "EWOULDBLOCK"
          THEN conv'.log = conv.log
          ELSE /\ Len(conv'.log) = Len(conv.log) + 1
               /\ SubSeq(conv'.log, 1, Len(conv.log)) = conv.log
               /\ LET message == conv'.log[Len(conv'.log)]
                  IN \E i \in 1 .. Len(message) : message[i] = conv'.fileLockPath]_vars

\* C24: once m_allocationFinalized is set it stays set, and from then on no
\* operation on the object, allocate() or the allocator of getBumpAllocator(),
\* returns a new region or moves the offset of the allocator.
C24_FinalizeIsOneWay ==
    [][shm.m_allocationFinalized
       => /\ shm'.m_allocationFinalized
          /\ shm'.m_currentPosition = shm.m_currentPosition
          /\ allocs' = allocs]_vars

\* C25: whenever a process holds a valid FileLock for a path, there is a file
\* at that path and it is the file the descriptor of the FileLock has open and
\* locked; a lock file is removed only while no other instance has it locked.
C25_LockFileIsTheLockedFile ==
    /\ [](\A p \in Procs : \A s \in Slots :
            (Valid(p, s) /\ ~Releasing(p, s))
            => LET pa == obj[p][s].m_fileLockPath
               IN /\ files[pa] # NoInode
                  /\ fdtab[p][obj[p][s].m_fd] = files[pa]
                  /\ lockOwner[files[pa]] = <<p, obj[p][s].m_fd>>)
    /\ [][\A pa \in Paths :
            (files[pa] # NoInode /\ files'[pa] = NoInode)
            => \E p \in Procs :
                /\ pc[p] = "rel_remove"
                /\ obj[p][ctx[p].slot].m_fileLockPath = pa
                /\ lockOwner[files[pa]] \in {NoOwner, <<p, obj[p][ctx[p].slot].m_fd>>}]_vars

\* the fill of this step leaves every byte a user has written as it is
FillKeepsUserBytes(c) ==
    \A b \in Bytes :
        seg[thr[c].cfg.name].cells[b] = 1 => seg'[thr[c].cfg.name].cells[b] = 1

\* C26: while the call that owns a segment has its zero-fill still before it,
\* no create() that attached to the segment has returned an object; and the
\* fill overwrites no byte a user of a returned object has written.
C26_AttachWaitsForZeroFill ==
    /\ [](\A c \in Callers :
            (/\ thr[c].ownership /\ writeZeros
             /\ thr[c].pc \in {"map", "lock", "register", "format", "memset"})
            => ~\E d \in Objects(thr[c].cfg.name) : ~thr[d].ownership)
    /\ [][\A c \in Callers :
            (thr[c].pc = "memset" /\ thr'[c].wrote) => FillKeepsUserBytes(c)]_vars

(***************************************************************************)
(* Properties of storable_function                                         *)
(***************************************************************************)
\* C27: through every sequence of constructions, copies, moves, assignments
\* (self-assignment too), swaps and destructions no destroy has run on a
\* storage without a live functor of its type, none has been read there, no
\* function has ended with its functor alive; a live functor is in the storage
\* of an existing function whose vtable and m_storedObj will destroy it, so
\* none is left once all functions are gone.
C27_FunctorDestroyedOnce ==
    /\ lifetime = NoLifetimeError
    /\ \A f \in FnSlots \cup {TmpFn} :
        /\ ~fn[f].exists => fn[f] = NoFunction
        /\ fn[f].m_storage.object # "none"
           => /\ fn[f].m_vtable = fn[f].m_storage.object
              /\ fn[f].m_storedObj # "nullptr"
              /\ fn[f].m_storage.inUse
        /\ fn[f].m_storage.inUse => fn[f].m_storage.object # "none"

\* a function that held a functor took a free function by assignment: its
\* functor is destroyed and m_storedObj still points at the storage, while
\* another function holds a live functor
C27_Witness ==
    \E f \in FnSlots, g \in FnSlots :
        /\ fn[f].exists
        /\ fn[f].m_vtable = "free"
        /\ fn[f].m_storedObj # "nullptr"
        /\ fn[f].m_storage = NoStorage
        /\ fn[g].m_storage.object \in FunctorTypes

=============================================================================
